---- MODULE Spec2Model ----
(***************************************************************************)
(* Network-Logging: flow aggregation (traffic_monitor.py), DNS memory      *)
(* (dns_logger.py) and the flow / DNS tables of the store                  *)
(* (database/postgresql.py, database/sqlite.py).                           *)
(*                                                                         *)
(* Time is in seconds.  IPv4 addresses are tuples of four octets; their    *)
(* text form (used by the SQLite LIKE match) is computed by IpText.        *)
(* Capture timestamps and utcnow() are read from the same clock `now`.     *)
(***************************************************************************)
EXTENDS Integers, Sequences, FiniteSets, Bags, TLC

VARIABLES
    now,            \* wall clock, datetime.utcnow()
    flow_cache,     \* TrafficMonitor.flow_cache: [keys: insertion order, data: key -> entry]
    last_flush,     \* TrafficMonitor.last_flush
    traffic_flows,  \* table traffic_flows: flow key -> row
    dns_lookups,    \* table dns_lookups: <<domain, query_type>> -> row
    dns_events,     \* table dns_events: the append-only log of DNS events
    accepted,       \* history: bag of every packet accepted by process_packet
    uncleared,      \* history: bag of the packets accepted since the cache was last cleared
    flush_obs,      \* history: what the latest _flush_cache call did
    store_failures, \* history: how many upsert_traffic_flow calls have raised
    lookup_call,    \* the latest direct get_domain_by_ip call and its result
    threat_indicators, \* table threat_indicators: bag of (feed_name, indicator_type, domain, ip)
    threat_feeds,      \* table threat_feeds: feed_name -> metadata row
    threat_whitelist,  \* table threat_whitelist: set of (indicator_type, domain, ip)
    threat_alerts,     \* table threat_alerts: rows in id order
    update_call,       \* history: the latest update_feed call and what it returned
    feed_history,      \* history: feed_name -> outcome and content of its previous update_feed call
    ingest,            \* DNS ingest thread inside the threat check of log_dns
    api,               \* API request add_threat_whitelist in progress
    updaters,          \* update_feed calls in progress: caller -> position and locals
    replace_log,       \* history: times at which non-forced updates replaced indicators
    txn,               \* update_threat_indicators in progress: statements executed so far
    read_call,         \* history: what the latest concurrent indicator read observed
    adders,            \* add_threat_whitelist requests in progress: request -> position and locals
    toggle_call,       \* history: the latest toggle_threat_feed request and its answer
    shutdown,          \* NetworkMonitor start/stop: flags, capture thread, position of stop()
    classify_call,     \* history: the latest LAN-internal packet classified and the result
    scheduler          \* ThreatFeedScheduler thread: position, feeds left in the round, feed flags

flowVars == <<flow_cache, last_flush, traffic_flows, accepted, uncleared, flush_obs,
              store_failures, lookup_call>>

dnsVars == <<dns_lookups, dns_events>>

storeThreatVars == <<threat_indicators, threat_feeds, threat_whitelist, threat_alerts>>

callVars == <<update_call, feed_history>>

raceVars == <<ingest, api, updaters, replace_log, txn, read_call, adders, toggle_call, shutdown, classify_call, scheduler>>

threatVars == <<threat_indicators, threat_feeds, threat_whitelist, threat_alerts,
                update_call, feed_history,
                ingest, api, updaters, replace_log, txn, read_call, adders, toggle_call, shutdown, classify_call, scheduler>>

vars == <<now, flow_cache, last_flush, traffic_flows, dns_lookups, dns_events,
          accepted, uncleared, flush_obs, store_failures, lookup_call,
          threat_indicators, threat_feeds, threat_whitelist, threat_alerts,
          update_call, feed_history,
          ingest, api, updaters, replace_log, txn, read_call, adders, toggle_call, shutdown, classify_call, scheduler>>

-----------------------------------------------------------------------------
(* Bounds of the model *)

MaxPackets == 3         \* packets handed to process_packet in one behaviour
MaxDnsEvents == 2       \* DNS events handed to log_dns in one behaviour
MaxSummaryEvents == 3   \* DNS events of one domain in the summary-row specification
MaxShortTime == 30      \* the clock advances in short steps up to this offset
TickShort == 30         \* a short step of the clock
MaxStoreFailures == 1   \* upsert_traffic_flow calls that raise in one behaviour
MaxUncheckedAlerts == 3 \* a scan whose query for the existing alerts fails starts below this many alerts

(* Program constants *)

cache_flush_interval == 60
orphaned_ip_days == 7
SecondsPerDay == 86400
EphemeralPortMin == 49152
throttle_hours == 3
SecondsPerHour == 3600
scan_days == 30
startup_delay == 30
update_interval_hours == 24
alert_fetch_limit == 10000

NULL == "NULL"          \* Python None / SQL NULL in a text column
NoIp == <<>>            \* Python None where an address is expected
NoTime == -1            \* Python None in an Optional[datetime] argument

-----------------------------------------------------------------------------
(* Addresses *)

Local1 == <<10, 0, 0, 5>>
Local2 == <<192, 168, 1, 10>>
Public1 == <<93, 184, 216, 34>>
Public2 == <<8, 8, 8, 8>>
Public3 == <<8, 8, 8, 88>>

IPs == {Local1, Local2, Public1, Public2}

\* ipaddress: is_private or is_loopback or is_link_local or is_multicast
IsLocalIp(ip) ==
    \/ ip[1] = 0
    \/ ip[1] = 10
    \/ ip[1] = 127
    \/ ip[1] = 169 /\ ip[2] = 254
    \/ ip[1] = 172 /\ ip[2] >= 16 /\ ip[2] <= 31
    \/ ip[1] = 192 /\ ip[2] = 0 /\ ip[3] = 0 /\ ip[4] <= 7
    \/ ip[1] = 192 /\ ip[2] = 0 /\ ip[3] = 0 /\ ip[4] \in {170, 171}
    \/ ip[1] = 192 /\ ip[2] = 0 /\ ip[3] = 2
    \/ ip[1] = 192 /\ ip[2] = 168
    \/ ip[1] = 198 /\ ip[2] \in {18, 19}
    \/ ip[1] = 198 /\ ip[2] = 51 /\ ip[3] = 100
    \/ ip[1] = 203 /\ ip[2] = 0 /\ ip[3] = 113
    \/ ip[1] >= 224

-----------------------------------------------------------------------------
(* Packets: the traffic_data dictionaries built by the capture callback *)

Packet(src, sport, dst, dport, size, ts) ==
    [source_ip |-> src, source_port |-> sport,
     destination_ip |-> dst, destination_port |-> dport,
     protocol |-> "TCP", packet_size |-> size, timestamp |-> ts]

\* <<source_ip, source_port, destination_ip, destination_port, packet_size>>
PacketShapes ==
    { <<Local1, 54321, Public1, 443, 60>>,      \* outbound
      <<Local1, 54321, Public1, 443, 1500>>,
      <<Public1, 443, Local1, 54321, 1500>>,    \* its response
      <<Local1, 54321, Local2, 445, 60>>,       \* LAN-internal
      <<Local2, 445, Local1, 54321, 1500>>,     \* its response
      <<Public1, 5000, Public2, 443, 60>>,      \* WAN to WAN
      <<Public2, 443, Public1, 5000, 1500>>,    \* its reverse direction
      <<Local1, 0, Public1, 443, 60>> }         \* source port missing: rejected

Packets(ts) == { Packet(e[1], e[2], e[3], e[4], e[5], ts) : e \in PacketShapes }

\* A packet without its timestamp: the element of the history bags.
Raw(p) == [p EXCEPT !.timestamp = 0]

\* `if not all([source_ip, dest_ip, dest_port, source_port, protocol])`
IsAccepted(p) ==
    /\ p.source_ip # NoIp /\ p.destination_ip # NoIp
    /\ p.destination_port # 0 /\ p.source_port # 0
    /\ p.protocol # NULL

-----------------------------------------------------------------------------
(* process_packet: direction inference and the canonical flow key *)

Flow(client, server, port, outbound, abnormal) ==
    [client_ip |-> client, server_ip |-> server, server_port |-> port,
     is_outbound_packet |-> outbound, is_abnormal |-> abnormal]

\* Lines 77-107: both endpoints local, client and server told apart by port.
ClassifyLanInternal(p) ==
    LET source_is_ephemeral == p.source_port >= EphemeralPortMin
        dest_is_ephemeral == p.destination_port >= EphemeralPortMin
    IN  IF source_is_ephemeral /\ ~dest_is_ephemeral
        THEN Flow(p.source_ip, p.destination_ip, p.destination_port, TRUE, FALSE)
        ELSE IF dest_is_ephemeral /\ ~source_is_ephemeral
        THEN Flow(p.destination_ip, p.source_ip, p.source_port, FALSE, FALSE)
        ELSE IF p.source_port < p.destination_port
        THEN Flow(p.source_ip, p.destination_ip, p.destination_port, TRUE, FALSE)
        ELSE Flow(p.destination_ip, p.source_ip, p.source_port, FALSE, FALSE)

\* Mutant: an inbound packet is keyed like an outbound one (no swap of the endpoints).
ClassifyNoSwap(p) ==
    LET source_is_local == IsLocalIp(p.source_ip)
        dest_is_local == IsLocalIp(p.destination_ip)
    IN  IF source_is_local /\ ~dest_is_local
        THEN Flow(p.source_ip, p.destination_ip, p.destination_port, TRUE, FALSE)
        ELSE IF dest_is_local /\ ~source_is_local
        THEN Flow(p.source_ip, p.destination_ip, p.destination_port, FALSE, FALSE)
        ELSE IF source_is_local /\ dest_is_local
        THEN ClassifyLanInternal(p)
        ELSE Flow(p.source_ip, p.destination_ip, p.destination_port, TRUE, TRUE)

\* Mutant: an inbound packet takes its destination port as the server port.
ClassifyInboundPort(p) ==
    LET source_is_local == IsLocalIp(p.source_ip)
        dest_is_local == IsLocalIp(p.destination_ip)
    IN  IF source_is_local /\ ~dest_is_local
        THEN Flow(p.source_ip, p.destination_ip, p.destination_port, TRUE, FALSE)
        ELSE IF dest_is_local /\ ~source_is_local
        THEN Flow(p.destination_ip, p.source_ip, p.destination_port, FALSE, FALSE)
        ELSE IF source_is_local /\ dest_is_local
        THEN ClassifyLanInternal(p)
        ELSE Flow(p.source_ip, p.destination_ip, p.destination_port, TRUE, TRUE)

\* Mutant: a WAN-to-WAN packet is keyed with the lower-port endpoint as the server.
ClassifyAbnormalCanonical(p) ==
    LET source_is_local == IsLocalIp(p.source_ip)
        dest_is_local == IsLocalIp(p.destination_ip)
    IN  IF source_is_local /\ ~dest_is_local
        THEN Flow(p.source_ip, p.destination_ip, p.destination_port, TRUE, FALSE)
        ELSE IF dest_is_local /\ ~source_is_local
        THEN Flow(p.destination_ip, p.source_ip, p.source_port, FALSE, FALSE)
        ELSE IF source_is_local /\ dest_is_local
        THEN ClassifyLanInternal(p)
        ELSE IF p.source_port < p.destination_port
        THEN Flow(p.destination_ip, p.source_ip, p.source_port, FALSE, TRUE)
        ELSE Flow(p.source_ip, p.destination_ip, p.destination_port, TRUE, TRUE)

\* Mutant: the abnormal flag is derived from the packet's source side alone.
ClassifyAbnormalBySource(p) ==
    LET source_is_local == IsLocalIp(p.source_ip)
        dest_is_local == IsLocalIp(p.destination_ip)
    IN  IF source_is_local /\ ~dest_is_local
        THEN Flow(p.source_ip, p.destination_ip, p.destination_port, TRUE, FALSE)
        ELSE IF dest_is_local /\ ~source_is_local
        THEN Flow(p.destination_ip, p.source_ip, p.source_port, FALSE, TRUE)
        ELSE IF source_is_local /\ dest_is_local
        THEN ClassifyLanInternal(p)
        ELSE Flow(p.source_ip, p.destination_ip, p.destination_port, TRUE, TRUE)

\* Lines 56-114: direction, client, server and the abnormal flag of a packet.
Classify(p) ==
    LET source_is_local == IsLocalIp(p.source_ip)
        dest_is_local == IsLocalIp(p.destination_ip)
    IN  IF source_is_local /\ ~dest_is_local
        THEN Flow(p.source_ip, p.destination_ip, p.destination_port, TRUE, FALSE)
        ELSE IF dest_is_local /\ ~source_is_local
        THEN Flow(p.destination_ip, p.source_ip, p.source_port, FALSE, FALSE)
        ELSE IF source_is_local /\ dest_is_local
        THEN ClassifyLanInternal(p)
        ELSE Flow(p.source_ip, p.destination_ip, p.destination_port, TRUE, TRUE)

\* flow_key = (client_ip, server_ip, server_port, protocol)
FlowKey(p) ==
    LET c == Classify(p)
    IN  <<c.client_ip, c.server_ip, c.server_port, p.protocol>>

EmptyCache == [keys |-> <<>>, data |-> <<>>]

CacheKeys(cache) == DOMAIN cache.data

Min(a, b) == IF a <= b THEN a ELSE b

\* Mutant: the byte counters are assigned instead of incremented.
UpdateEntryAssign(entry, p, c, t) ==
    [entry EXCEPT
        !.bytes_sent = IF c.is_outbound_packet THEN p.packet_size ELSE @,
        !.bytes_received = IF c.is_outbound_packet THEN @ ELSE p.packet_size,
        !.packet_count = @ + 1,
        !.first_seen = Min(@, p.timestamp),
        !.is_abnormal = c.is_abnormal]

\* Lines 145-165: the counters of the packet's entry.
UpdateEntry(entry, p, c, t) ==
    [entry EXCEPT
        !.bytes_sent = IF c.is_outbound_packet THEN @ + p.packet_size ELSE @,
        !.bytes_received = IF c.is_outbound_packet THEN @ ELSE @ + p.packet_size,
        !.packet_count = @ + 1,
        !.first_seen = Min(@, p.timestamp),
        !.is_abnormal = c.is_abnormal]

\* Lines 121-130: the entry created for a key that is not in the cache.
NewEntry(p, c, t) ==
    [bytes_sent |-> 0, bytes_received |-> 0, packet_count |-> 0,
     first_seen |-> p.timestamp, is_abnormal |-> c.is_abnormal]

\* The cache after lines 119-165 for an accepted packet.
CacheAfterPacket(cache, p, t) ==
    LET c == Classify(p)
        k == <<c.client_ip, c.server_ip, c.server_port, p.protocol>>
        present == k \in CacheKeys(cache)
        entry == IF present THEN cache.data[k] ELSE NewEntry(p, c, t)
    IN  [keys |-> IF present THEN cache.keys ELSE Append(cache.keys, k),
         data |-> [x \in CacheKeys(cache) \cup {k} |->
                      IF x = k THEN UpdateEntry(entry, p, c, t) ELSE cache.data[x]]]

-----------------------------------------------------------------------------
(* DNS memory: dns_logger.log_dns and the dns_lookups table *)

Domains == {"example.com", "foo.test"}

\* One answer of a response: an address record, or a "TYPE:data" record.
AnswerA(ip) == [rtype |-> "A", rdata |-> ip]
AnswerCname == [rtype |-> "CNAME", rdata |-> <<0, 0, 0, 0>>]

\* dns_logger.py lines 112-121: the answers that are plain IP addresses.
IsIpAnswer(a) == a.rtype \notin {"CNAME", "NS", "MX", "TXT", "SRV", "SOA", "PTR"}

RECURSIVE IpsOfAnswers(_)
IpsOfAnswers(answers) ==
    IF answers = <<>> THEN <<>>
    ELSE IF IsIpAnswer(Head(answers))
         THEN <<Head(answers).rdata>> \o IpsOfAnswers(Tail(answers))
         ELSE IpsOfAnswers(Tail(answers))

DnsEvent(type, domain, qtype, answers, ts) ==
    [type |-> type, domain |-> domain, query_type |-> qtype,
     resolved_ips |-> answers, timestamp |-> ts]

SeqToSet(q) == { q[i] : i \in DOMAIN q }

\* Mutant: ON CONFLICT also sets first_seen = EXCLUDED.first_seen.
InsertDnsLookupOverwriteFirstSeen(tbl, domain, query_type, resolved_ips, timestamp, first_seen) ==
    LET k == <<domain, query_type>>
    IN  [x \in DOMAIN tbl \cup {k} |->
            IF x = k
            THEN [resolved_ips |-> resolved_ips,
                  first_seen |-> IF first_seen = NoTime THEN timestamp ELSE first_seen,
                  last_seen |-> timestamp]
            ELSE tbl[x]]

\* insert_dns_lookup: INSERT ... ON CONFLICT (domain, query_type) DO UPDATE
\* SET resolved_ips, last_seen; first_seen of an existing row is kept.
insert_dns_lookup(tbl, domain, query_type, resolved_ips, timestamp, first_seen) ==
    LET k == <<domain, query_type>>
    IN  IF k \in DOMAIN tbl
        THEN [tbl EXCEPT ![k].resolved_ips = resolved_ips, ![k].last_seen = timestamp]
        ELSE [x \in DOMAIN tbl \cup {k} |->
                IF x = k
                THEN [resolved_ips |-> resolved_ips,
                      first_seen |-> IF first_seen = NoTime THEN timestamp ELSE first_seen,
                      last_seen |-> timestamp]
                ELSE tbl[x]]

\* get_dns_lookup_by_domain: WHERE domain = d ORDER BY last_seen DESC LIMIT 1.
\* The set of keys the query may return (rows tied on last_seen), {} for no row.
get_dns_lookup_by_domain(tbl, domain) ==
    { k \in DOMAIN tbl :
        /\ k[1] = domain
        /\ \A j \in DOMAIN tbl : j[1] = domain => tbl[j].last_seen <= tbl[k].last_seen }

\* Mutant: the before_timestamp bound is not applied.
PgGetDomainByIpNoBound(tbl, ip, days, before_timestamp, t) ==
    LET cutoff_date == t - days * SecondsPerDay
        rows == { k \in DOMAIN tbl :
                    /\ ip \in SeqToSet(tbl[k].resolved_ips)
                    /\ tbl[k].last_seen >= cutoff_date }
        best == { k \in rows : \A j \in rows : tbl[j].first_seen <= tbl[k].first_seen }
    IN  IF rows = {} THEN {NULL} ELSE { k[1] : k \in best }

\* PostgreSQL get_domain_by_ip: the set of values the query may return.
\* before_timestamp = NoTime stands for the argument left out.
PgGetDomainByIp(tbl, ip, days, before_timestamp, t) ==
    LET cutoff_date == t - days * SecondsPerDay
        rows == { k \in DOMAIN tbl :
                    /\ ip \in SeqToSet(tbl[k].resolved_ips)
                    /\ tbl[k].last_seen >= cutoff_date
                    /\ (before_timestamp # NoTime => tbl[k].first_seen <= before_timestamp) }
        best == { k \in rows : \A j \in rows : tbl[j].first_seen <= tbl[k].first_seen }
    IN  IF rows = {} THEN {NULL} ELSE { k[1] : k \in best }

\* Text of an address and of the JSON array stored in resolved_ips.  A text is
\* a sequence of character codes: 0..9 the digits, then the punctuation below.
ChDot == 10
ChQuote == 11
ChComma == 12
ChOpen == 13
ChClose == 14

RECURSIVE DecimalText(_)
DecimalText(n) ==
    IF n < 10 THEN <<n>> ELSE DecimalText(n \div 10) \o <<n % 10>>

IpText(ip) ==
    DecimalText(ip[1]) \o <<ChDot>> \o DecimalText(ip[2]) \o <<ChDot>>
        \o DecimalText(ip[3]) \o <<ChDot>> \o DecimalText(ip[4])

RECURSIVE JsonItems(_)
JsonItems(ips) ==
    IF ips = <<>> THEN <<>>
    ELSE <<ChQuote>> \o IpText(Head(ips)) \o <<ChQuote>>
            \o (IF Len(ips) > 1 THEN <<ChComma>> ELSE <<>>) \o JsonItems(Tail(ips))

JsonText(ips) == <<ChOpen>> \o JsonItems(ips) \o <<ChClose>>

\* text LIKE '%pattern%'
Contains(text, pattern) ==
    \E i \in 0..(Len(text) - Len(pattern)) :
        \A j \in 1..Len(pattern) : text[i + j] = pattern[j]

\* SQLite get_domain_by_ip(ip, days): json_extract(resolved_ips, '$') LIKE '%ip%'
\* AND last_seen >= cutoff ORDER BY last_seen DESC LIMIT 1.
SqliteGetDomainByIp(tbl, ip, days, t) ==
    LET cutoff_date == t - days * SecondsPerDay
        rows == { k \in DOMAIN tbl :
                    /\ Contains(JsonText(tbl[k].resolved_ips), IpText(ip))
                    /\ tbl[k].last_seen >= cutoff_date }
        best == { k \in rows : \A j \in rows : tbl[j].last_seen <= tbl[k].last_seen }
    IN  IF rows = {} THEN {NULL} ELSE { k[1] : k \in best }

-----------------------------------------------------------------------------
(* The traffic_flows table: PostgreSQL upsert_traffic_flow *)

\* Mutant: the lookup is made for abnormal flows too.
UpsertDomainNoGuard(domain, is_abnormal, looked) ==
    IF domain = NULL THEN looked ELSE domain

\* Lines 832-835: the domain bound to the flow; `looked` is what
\* get_domain_by_ip returns for the flow (it is called only under the guard).
UpsertDomain(domain, is_abnormal, looked) ==
    IF domain = NULL /\ ~is_abnormal THEN looked ELSE domain

\* Mutant: ON CONFLICT sets domain = EXCLUDED.domain.
UpsertRowOverwriteDomain(tbl, k, e, domain, t) ==
    IF k \in DOMAIN tbl
    THEN [tbl EXCEPT ![k] =
            [domain |-> domain,
             bytes_sent |-> @.bytes_sent + e.bytes_sent,
             bytes_received |-> @.bytes_received + e.bytes_received,
             packet_count |-> @.packet_count + e.packet_count,
             first_seen |-> Min(e.first_seen, @.first_seen),
             is_orphaned |-> (domain = NULL),
             is_abnormal |-> e.is_abnormal]]
    ELSE [x \in DOMAIN tbl \cup {k} |->
            IF x = k
            THEN [domain |-> domain, bytes_sent |-> e.bytes_sent,
                  bytes_received |-> e.bytes_received, packet_count |-> e.packet_count,
                  first_seen |-> e.first_seen,
                  is_orphaned |-> (domain = NULL), is_abnormal |-> e.is_abnormal]
            ELSE tbl[x]]

\* Lines 837-863: INSERT ... ON CONFLICT (source_ip, destination_ip,
\* destination_port, protocol) DO UPDATE, with is_orphaned = domain is None.
UpsertRow(tbl, k, e, domain, t) ==
    IF k \in DOMAIN tbl
    THEN [tbl EXCEPT ![k] =
            [domain |-> IF domain # NULL THEN domain ELSE @.domain,
             bytes_sent |-> @.bytes_sent + e.bytes_sent,
             bytes_received |-> @.bytes_received + e.bytes_received,
             packet_count |-> @.packet_count + e.packet_count,
             first_seen |-> Min(e.first_seen, @.first_seen),
             is_orphaned |-> (domain = NULL),
             is_abnormal |-> e.is_abnormal]]
    ELSE [x \in DOMAIN tbl \cup {k} |->
            IF x = k
            THEN [domain |-> domain, bytes_sent |-> e.bytes_sent,
                  bytes_received |-> e.bytes_received, packet_count |-> e.packet_count,
                  first_seen |-> e.first_seen,
                  is_orphaned |-> (domain = NULL), is_abnormal |-> e.is_abnormal]
            ELSE tbl[x]]

-----------------------------------------------------------------------------
(* _flush_cache *)

Max0(n) == IF n > 0 THEN n ELSE 0

\* Lines 216-224: the values handed to upsert_traffic_flow for one entry.
FlushValues(e) ==
    [bytes_sent |-> Max0(e.bytes_sent), bytes_received |-> Max0(e.bytes_received),
     packet_count |-> Max0(e.packet_count), first_seen |-> e.first_seen,
     is_abnormal |-> e.is_abnormal]

\* What get_domain_by_ip may return for each entry of the cache at time t.
Picks(cache, dns, t) ==
    { f \in [CacheKeys(cache) -> Domains \cup {NULL}] :
        \A k \in CacheKeys(cache) :
            f[k] \in PgGetDomainByIp(dns, k[2], orphaned_ip_days, cache.data[k].first_seen, t) }

\* The table after upsert_traffic_flow for the first n entries, in dict order.
RECURSIVE UpsertPrefix(_, _, _, _, _)
UpsertPrefix(tbl, cache, pick, n, t) ==
    IF n = 0 THEN tbl
    ELSE LET k == cache.keys[n]
             e == FlushValues(cache.data[k])
         IN  UpsertRow(UpsertPrefix(tbl, cache, pick, n - 1, t), k, e,
                       UpsertDomain(NULL, e.is_abnormal, pick[k]), t)

FlushOutcome(cache, tbl, lf, done, ran) ==
    [cache |-> cache, traffic_flows |-> tbl, last_flush |-> lf, done |-> done, ran |-> ran]

\* Mutant: the cache is cleared although an upsert raised.
FlushCacheClearOnError(cache, tbl, lf, pick, fail_at, t) ==
    IF cache.keys = <<>>
    THEN FlushOutcome(cache, tbl, lf, {}, FALSE)
    ELSE IF fail_at = 0
    THEN FlushOutcome(EmptyCache, UpsertPrefix(tbl, cache, pick, Len(cache.keys), t), t,
                      SeqToSet(cache.keys), TRUE)
    ELSE FlushOutcome(EmptyCache, UpsertPrefix(tbl, cache, pick, fail_at - 1, t), lf,
                      { cache.keys[i] : i \in 1..(fail_at - 1) }, TRUE)

\* Mutant: the entry whose upsert raised is dropped from the cache.
FlushCacheDropFailed(cache, tbl, lf, pick, fail_at, t) ==
    IF cache.keys = <<>>
    THEN FlushOutcome(cache, tbl, lf, {}, FALSE)
    ELSE IF fail_at = 0
    THEN FlushOutcome(EmptyCache, UpsertPrefix(tbl, cache, pick, Len(cache.keys), t), t,
                      SeqToSet(cache.keys), TRUE)
    ELSE FlushOutcome([keys |-> SelectSeq(cache.keys, LAMBDA k : k # cache.keys[fail_at]),
                       data |-> [k \in CacheKeys(cache) \ {cache.keys[fail_at]} |->
                                    cache.data[k]]],
                      UpsertPrefix(tbl, cache, pick, fail_at - 1, t), lf,
                      { cache.keys[i] : i \in 1..(fail_at - 1) }, TRUE)

\* _flush_cache.  fail_at = 0: every upsert succeeds, the cache is cleared and
\* last_flush set.  fail_at = i > 0: the i-th upsert raises; the earlier ones
\* are committed, the exception is logged, the cache and last_flush stay.
FlushCache(cache, tbl, lf, pick, fail_at, t) ==
    IF cache.keys = <<>>
    THEN FlushOutcome(cache, tbl, lf, {}, FALSE)
    ELSE IF fail_at = 0
    THEN FlushOutcome(EmptyCache, UpsertPrefix(tbl, cache, pick, Len(cache.keys), t), t,
                      SeqToSet(cache.keys), TRUE)
    ELSE FlushOutcome(cache, UpsertPrefix(tbl, cache, pick, fail_at - 1, t), lf,
                      { cache.keys[i] : i \in 1..(fail_at - 1) }, TRUE)

NoFlushYet ==
    [called |-> FALSE, before |-> <<>>, pending |-> EmptyBag, done |-> {}]

-----------------------------------------------------------------------------
(* Threat index: the threat_indicators, threat_whitelist, threat_alerts and  *)
(* threat_feeds tables and the matching of threat_intel.py                   *)

\* Domain names of the threat scenarios; "A.EVIL.COM" is a.evil.com as a
\* resolver may spell it on the wire.
ThreatNames == {"evil.com", "a.evil.com", "A.EVIL.COM"}

\* str.lower()
Lower(d) == IF d = "A.EVIL.COM" THEN "a.evil.com" ELSE d

\* domain.split('.') on the (lower-case) names of the model
Labels(d) ==
    CASE d = "evil.com" -> <<"evil", "com">>
      [] d = "a.evil.com" -> <<"a", "evil", "com">>
      [] d = "printer.local" -> <<"printer", "local">>
      [] d = "example.com" -> <<"example", "com">>
      [] d = "foo.test" -> <<"foo", "test">>
      [] OTHER -> <<d>>

SplitNames == {"evil.com", "a.evil.com", "printer.local", "example.com", "foo.test"}

\* '.'.join(parts)
JoinLabels(parts) == CHOOSE d \in SplitNames : Labels(d) = parts

\* The suffix walk of check_domain and is_threat_whitelisted:
\* for i in range(1, len(parts)): parent = '.'.join(parts[i:]), kept when it
\* has at least two labels.  The parents in the order they are tried.
ParentDomains(d) ==
    LET parts == Labels(d)
        n == Len(parts)
    IN  [j \in 1..(IF n >= 2 THEN n - 2 ELSE 0) |-> JoinLabels(SubSeq(parts, j + 1, n))]

\* One row of threat_indicators / threat_alerts / threat_whitelist.
IndicatorRow(feed_name, indicator_type, domain, ip) ==
    [feed_name |-> feed_name, indicator_type |-> indicator_type, domain |-> domain, ip |-> ip]

WhitelistRow(indicator_type, domain, ip) ==
    [indicator_type |-> indicator_type, domain |-> domain, ip |-> ip]

\* check_threat_indicator: SELECT ... WHERE indicator_type = .. AND domain|ip = ..
\* LIMIT 1.  The set of rows the query may return; {} for None.
check_threat_indicator(tbl, domain, ip) ==
    IF domain # NULL
    THEN { r \in BagToSet(tbl) : r.indicator_type = "domain" /\ r.domain = Lower(domain) }
    ELSE IF ip # NoIp
         THEN { r \in BagToSet(tbl) : r.indicator_type = "ip" /\ r.ip = ip }
         ELSE {}

\* Mutant: the exact match only, without the suffix walk.
CheckDomainExactOnly(tbl, domain) ==
    check_threat_indicator(tbl, Lower(domain), NoIp)

\* ThreatIntelligenceManager.check_domain: the exact match first, then the
\* first parent domain that has an indicator.
check_domain(tbl, domain) ==
    LET domain_lower == Lower(domain)
        exact == check_threat_indicator(tbl, domain_lower, NoIp)
        parents == ParentDomains(domain_lower)
        hits == { j \in DOMAIN parents : check_threat_indicator(tbl, parents[j], NoIp) # {} }
        first == CHOOSE j \in hits : \A k \in hits : j <= k
    IN  IF exact # {} THEN exact
        ELSE IF hits = {} THEN {}
        ELSE check_threat_indicator(tbl, parents[first], NoIp)

\* ThreatIntelligenceManager.check_ip: the address is normalised (an address
\* of the model is already in its normal form) and looked up; no address is
\* excluded.
check_ip(tbl, ip) == check_threat_indicator(tbl, NULL, ip)

\* PostgreSQLDatabase.is_threat_whitelisted
is_threat_whitelisted(wl, domain, ip) ==
    IF domain # NULL
    THEN LET domain_lower == Lower(domain)
             parents == ParentDomains(domain_lower)
             listed(d) == \E w \in wl : w.indicator_type = "domain" /\ w.domain = d
         IN  listed(domain_lower) \/ \E j \in DOMAIN parents : listed(parents[j])
    ELSE IF ip # NoIp
         THEN \E w \in wl : w.indicator_type = "ip" /\ w.ip = ip
         ELSE FALSE

\* The SELECT of add_threat_whitelist: is there a row of this type with the
\* (lower-cased) domain, or else with the address?
WhitelistExisting(wl, indicator_type, domain, ip) ==
    IF domain # NULL
    THEN \E w \in wl : w.indicator_type = indicator_type /\ w.domain = Lower(domain)
    ELSE \E w \in wl : w.indicator_type = indicator_type /\ w.ip = ip

\* The unique indexes idx_threat_whitelist_domain and idx_threat_whitelist_ip:
\* would inserting the row violate one of them?
WhitelistConflict(wl, row) ==
    \E w \in wl : \/ (row.domain # NULL /\ w.domain = row.domain)
                  \/ (row.ip # NoIp /\ w.ip = row.ip)

\* The INSERT of add_threat_whitelist: the table afterwards and whether the
\* statement raised (the transaction is rolled back and the error re-raised).
WhitelistInsert(wl, indicator_type, domain, ip) ==
    LET row == WhitelistRow(indicator_type,
                            IF domain = NULL THEN NULL ELSE Lower(domain), ip)
    IN  IF WhitelistConflict(wl, row)
        THEN [wl |-> wl, result |-> "error"]
        ELSE [wl |-> wl \cup {row}, result |-> "created"]

\* PostgreSQLDatabase.add_threat_whitelist: the existing entry is kept.
add_threat_whitelist(wl, indicator_type, domain, ip) ==
    IF WhitelistExisting(wl, indicator_type, domain, ip)
    THEN [wl |-> wl, result |-> "existing"]
    ELSE WhitelistInsert(wl, indicator_type, domain, ip)

\* PostgreSQLDatabase.create_threat_alert
create_threat_alert(alerts, domain, ip, threat_feed, indicator_type) ==
    Append(alerts, [feed_name |-> threat_feed, indicator_type |-> indicator_type,
                    domain |-> IF domain = NULL THEN NULL ELSE Lower(domain),
                    ip |-> ip, resolved |-> FALSE])

\* PostgreSQLDatabase.resolve_threat_alerts_by_indicator
resolve_threat_alerts_by_indicator(alerts, domain, ip) ==
    [i \in DOMAIN alerts |->
        IF /\ ~alerts[i].resolved
           /\ \/ (domain # NULL /\ alerts[i].domain = Lower(domain))
              \/ (ip # NoIp /\ alerts[i].ip = ip)
        THEN [alerts[i] EXCEPT !.resolved = TRUE]
        ELSE alerts[i]]

\* The feeds registered by ThreatIntelligenceManager.__init__.
FeedNames == {"URLhaus", "PhishingArmy"}

FeedMeta(last_update, indicator_count, last_error, enabled) ==
    [last_update |-> last_update, indicator_count |-> indicator_count,
     last_error |-> last_error, enabled |-> enabled]

\* PostgreSQLDatabase.update_threat_feed_metadata: INSERT ... ON CONFLICT
\* (feed_name) DO UPDATE SET enabled, last_update, indicator_count, last_error.
update_threat_feed_metadata(tbl, feed_name, last_update, indicator_count, enabled, error) ==
    [x \in DOMAIN tbl \cup {feed_name} |->
        IF x = feed_name THEN FeedMeta(last_update, indicator_count, error, enabled)
        ELSE tbl[x]]

\* A toggle that rewrites the whole metadata row, as the upsert does.
UpdateFeedEnabledAsUpsert(tbl, feed_name, enabled) ==
    IF feed_name \in DOMAIN tbl
    THEN update_threat_feed_metadata(tbl, feed_name, NoTime, 0, enabled, NULL)
    ELSE tbl

\* PostgreSQLDatabase.update_threat_feed_enabled: UPDATE threat_feeds SET
\* enabled = .. WHERE feed_name = ..
update_threat_feed_enabled(tbl, feed_name, enabled) ==
    [x \in DOMAIN tbl |->
        IF x = feed_name THEN [tbl[x] EXCEPT !.enabled = enabled] ELSE tbl[x]]

\* ThreatFeedBase.__init__: a feed object is enabled unless told otherwise.
feed_enabled == TRUE

\* ThreatIntelligenceManager.register_feed: a feed without a metadata row gets
\* its initial row; an existing row is only read.
register_feed(tbl, feed_name) ==
    IF feed_name \in DOMAIN tbl THEN tbl
    ELSE update_threat_feed_metadata(tbl, feed_name, NoTime, 0, feed_enabled, NULL)

-----------------------------------------------------------------------------
(* Feed update: ThreatFeedBase.download / parse and update_feed *)

\* The text a feed URL may serve: host names and addresses, one per line.
FeedContent(domains, ips) == [domains |-> domains, ips |-> ips]

\* _is_local_domain: a local TLD, or a single label.
LocalTlds == {"local", "localhost", "internal", "lan", "home", "corp",
              "localdomain", "arpa", "test", "example", "invalid"}

IsLocalDomain(d) ==
    LET parts == Labels(d)
    IN  Len(parts) < 2 \/ parts[Len(parts)] \in LocalTlds

\* URLhausFeed.parse / PhishingArmyFeed.parse: lower-case hosts that are not
\* local, and addresses that are not private/loopback/link-local/multicast.
ParseFeed(content) ==
    [domains |-> { Lower(d) : d \in { x \in content.domains : ~IsLocalDomain(Lower(x)) } },
     ips |-> { ip \in content.ips : ~IsLocalIp(ip) }]

\* The rows update_threat_indicators inserts for a feed.
NewIndicatorRows(feed_name, domains, ips) ==
    { IndicatorRow(feed_name, "domain", Lower(d), NoIp) : d \in domains }
        \cup { IndicatorRow(feed_name, "ip", NULL, ip) : ip \in ips }

\* The rows of the table that belong to other feeds.
RowsOfOtherFeeds(tbl, feed_name) ==
    [r \in { x \in DOMAIN tbl : x.feed_name # feed_name } |-> tbl[r]]

\* The rows of the table that belong to the feed.
RowsOfFeed(tbl, feed_name) ==
    [r \in { x \in DOMAIN tbl : x.feed_name = feed_name } |-> tbl[r]]

\* Mutant: the rows of the feed are not deleted before the insert.
UpdateIndicatorsNoDelete(tbl, feed_name, domains, ips) ==
    tbl (+) SetToBag(NewIndicatorRows(feed_name, domains, ips))

\* update_threat_indicators: DELETE FROM threat_indicators WHERE feed_name = ..,
\* then the bulk inserts, in one transaction.
update_threat_indicators(tbl, feed_name, domains, ips) ==
    RowsOfOtherFeeds(tbl, feed_name) (+) SetToBag(NewIndicatorRows(feed_name, domains, ips))

\* The value update_threat_indicators returns: len(domains) + len(ips).
IndicatorCount(domains, ips) == Cardinality(domains) + Cardinality(ips)

\* timedelta(hours=3), in seconds
ThrottleSeconds == throttle_hours * SecondsPerHour

\* Mutant: an update at exactly last_update + 3h is still throttled.
IsThrottledInclusive(meta, force, t) ==
    /\ ~force
    /\ meta.last_update # NoTime
    /\ t - meta.last_update <= ThrottleSeconds

\* update_feed lines 331-358: the throttle check on the stored last_update.
IsThrottled(meta, force, t) ==
    /\ ~force
    /\ meta.last_update # NoTime
    /\ t - meta.last_update < ThrottleSeconds

\* What one update_feed call leaves in the store and returns.  `outcome` is
\* what happens once the call is past the throttle check: "ok", the download
\* fails ("download_error"), or extract_domains_and_ips / update_threat_indicators
\* raises ("parse_error", "store_error"; the transaction is rolled back).
update_feed(indicators, feeds, feed_name, force, outcome, content, t, enabled) ==
    LET parsed == ParseFeed(content)
        count == IndicatorCount(parsed.domains, parsed.ips)
    IN  IF IsThrottled(feeds[feed_name], force, t)
        THEN [indicators |-> indicators, feeds |-> feeds,
              result |-> "throttled", downloaded |-> FALSE]
        ELSE IF ~enabled \/ outcome = "download_error"
        THEN [indicators |-> indicators, feeds |-> feeds,
              result |-> "download_failed", downloaded |-> FALSE]
        ELSE IF outcome \in {"parse_error", "store_error"}
        THEN [indicators |-> indicators,
              feeds |-> update_threat_feed_metadata(feeds, feed_name, t, 0, enabled, outcome),
              result |-> "error", downloaded |-> TRUE]
        ELSE [indicators |-> update_threat_indicators(indicators, feed_name,
                                                      parsed.domains, parsed.ips),
              feeds |-> update_threat_feed_metadata(feeds, feed_name, t, count, enabled, NULL),
              result |-> "success", downloaded |-> TRUE]

UpdateOutcomes == {"ok", "download_error", "parse_error", "store_error"}

-----------------------------------------------------------------------------
(* Live threat checks of log_dns and the historical rescan *)

\* log_dns lines 50-77: whitelist check, check_domain, second whitelist check,
\* create_alert.  The alert tables the check may leave (one per row LIMIT 1
\* may return).
LiveDomainAlerts(alerts, indicators, wl, domain) ==
    IF is_threat_whitelisted(wl, Lower(domain), NoIp)
    THEN {alerts}
    ELSE LET threat_match == check_domain(indicators, domain)
         IN  IF threat_match = {} \/ is_threat_whitelisted(wl, Lower(domain), NoIp)
             THEN {alerts}
             ELSE { create_threat_alert(alerts, domain, NoIp, r.feed_name, "domain") :
                        r \in threat_match }

\* log_dns lines 170-197: the same check for every resolved address; the
\* alert row carries the domain of the response.
RECURSIVE LiveIpAlerts(_, _, _, _, _)
LiveIpAlerts(alerts, indicators, wl, domain, ips) ==
    IF ips = <<>> THEN {alerts}
    ELSE LET ip == Head(ips)
             threat_match == IF is_threat_whitelisted(wl, NULL, ip)
                             THEN {}
                             ELSE check_ip(indicators, ip)
             nexts == IF threat_match = {}
                      THEN {alerts}
                      ELSE { create_threat_alert(alerts, domain, ip, r.feed_name, "ip") :
                                r \in threat_match }
         IN  UNION { LiveIpAlerts(a, indicators, wl, domain, Tail(ips)) : a \in nexts }

\* The working state of scan_historical_dns: the alert table, the domains and
\* addresses already visited, and the keys of the alerts known to exist.
ScanState(alerts, domains_checked, ips_checked, domain_keys, ip_keys) ==
    [alerts |-> alerts, domains_checked |-> domains_checked, ips_checked |-> ips_checked,
     domain_keys |-> domain_keys, ip_keys |-> ip_keys]

\* get_threat_alerts(limit, since=None, resolved=None): the newest `limit`
\* rows (ORDER BY created_at DESC LIMIT %s); when the query raises, the
\* method logs the error and returns [].
get_threat_alerts(alerts, limit, fetched) ==
    IF ~fetched THEN <<>>
    ELSE IF Len(alerts) <= limit THEN alerts
    ELSE SubSeq(alerts, Len(alerts) - limit + 1, Len(alerts))

\* scan_historical_dns lines 537-559: existing_alert_keys, built from the
\* rows get_threat_alerts(limit=10000) returned.
ScanStart(alerts, existing_alerts) ==
    ScanState(alerts, {}, {},
              { <<Lower(existing_alerts[i].domain), existing_alerts[i].feed_name>> :
                    i \in { j \in DOMAIN existing_alerts : existing_alerts[j].domain # NULL } },
              { <<existing_alerts[i].ip, existing_alerts[i].feed_name>> :
                    i \in { j \in DOMAIN existing_alerts : existing_alerts[j].ip # NoIp } })

\* scan_historical_dns lines 602-665: the addresses of one event.
RECURSIVE ScanIps(_, _, _, _, _)
ScanIps(st, indicators, wl, domain, ips) ==
    IF ips = <<>> THEN {st}
    ELSE LET ip == Head(ips)
             seen == [st EXCEPT !.ips_checked = @ \cup {ip}]
             threat_match == check_ip(indicators, ip)
             nexts ==
                 IF ip \in st.ips_checked THEN {st}
                 ELSE IF is_threat_whitelisted(wl, NULL, ip) \/ threat_match = {}
                 THEN {seen}
                 ELSE { IF <<ip, r.feed_name>> \in seen.ip_keys
                        THEN seen
                        ELSE [seen EXCEPT
                                !.alerts = create_threat_alert(@, domain, ip,
                                                               r.feed_name, "ip"),
                                !.ip_keys = @ \cup {<<ip, r.feed_name>>}] :
                            r \in threat_match }
         IN  UNION { ScanIps(s, indicators, wl, domain, Tail(ips)) : s \in nexts }

\* scan_historical_dns lines 562-665: one event.  A whitelisted domain that is
\* visited for the first time ends the iteration (`continue`) before the
\* addresses of the event are looked at.
ScanEvent(st, indicators, wl, ev) ==
    LET domain_key == Lower(ev.domain)
        seen == [st EXCEPT !.domains_checked = @ \cup {domain_key}]
        threat_match == check_domain(indicators, ev.domain)
        ips == IpsOfAnswers(ev.resolved_ips)
        after_domain ==
            IF threat_match = {}
            THEN {seen}
            ELSE { IF <<domain_key, r.feed_name>> \in seen.domain_keys
                   THEN seen
                   ELSE [seen EXCEPT
                           !.alerts = create_threat_alert(@, ev.domain, NoIp,
                                                          r.feed_name, "domain"),
                           !.domain_keys = @ \cup {<<domain_key, r.feed_name>>}] :
                       r \in threat_match }
    IN  IF domain_key \in st.domains_checked
        THEN ScanIps(st, indicators, wl, ev.domain, ips)
        ELSE IF is_threat_whitelisted(wl, ev.domain, NoIp)
        THEN {seen}
        ELSE UNION { ScanIps(s, indicators, wl, ev.domain, ips) : s \in after_domain }

RECURSIVE ScanEvents(_, _, _, _)
ScanEvents(sts, indicators, wl, evs) ==
    IF evs = <<>> THEN sts
    ELSE ScanEvents(UNION { ScanEvent(st, indicators, wl, Head(evs)) : st \in sts },
                    indicators, wl, Tail(evs))

\* get_dns_events(since = start_time): ORDER BY event_timestamp DESC; the
\* orders in which the rows may come back (ties in any order).
ScanOrders(events, since) ==
    LET idx == { i \in DOMAIN events : events[i].timestamp >= since }
        n == Cardinality(idx)
    IN  { [j \in 1..n |-> events[o[j]]] :
            o \in { f \in [1..n -> idx] :
                      /\ \A a, b \in 1..n : a # b => f[a] # f[b]
                      /\ \A a, b \in 1..n :
                            a < b => events[f[a]].timestamp >= events[f[b]].timestamp } }

\* ThreatIntelligenceManager.scan_historical_dns(days): the alert tables the
\* scan may leave; `fetched` tells whether the query for the existing alerts
\* went through.
scan_historical_dns(alerts, indicators, wl, events, days, t, fetched) ==
    { st.alerts :
        st \in UNION { ScanEvents({ScanStart(alerts,
                                             get_threat_alerts(alerts, alert_fetch_limit,
                                                               fetched))},
                                  indicators, wl, evs) :
                          evs \in ScanOrders(events, t - days * SecondsPerDay) } }

-----------------------------------------------------------------------------
(* Initial state and actions *)

\* No update_feed call yet.
NoUpdateCall ==
    [feed_name |-> NULL, force |-> FALSE, at |-> 0, outcome |-> NULL,
     content |-> FeedContent({}, {}), result |-> NULL, downloaded |-> FALSE,
     stored_last_update |-> NoTime, repeated |-> FALSE]

NoFeedCall == [result |-> NULL, content |-> FeedContent({}, {})]

IngestIdle == [pc |-> "idle", domain |-> NULL, threat_match |-> {}]

ApiIdle == [pc |-> "idle", domain |-> NULL]

\* The callers of update_feed: the scheduler thread and a manual API request.
Updaters == {"scheduler", "manual"}

UpdaterIdle == [pc |-> "idle", last_update |-> NoTime]

\* Two API requests that add whitelist entries at the same time.
Adders == {"request1", "request2"}

AdderIdle == [pc |-> "idle", indicator_type |-> NULL, domain |-> NULL, ip |-> NoIp,
              result |-> NULL]

\* NetworkMonitor after __init__: running is False, no capture thread yet.
\* iter is the position of the shutdown flush in flow_cache.items() (0: not
\* iterating) and iter_len the size of the dict when the iteration began; the
\* remaining fields are history.
NotStarted ==
    [pc |-> "init", running |-> FALSE, capture_running |-> FALSE, thread |-> "none",
     iter |-> 0, iter_len |-> 0, called |-> {}, flushes |-> 0,
     at_flush |-> <<>>, upserted |-> EmptyBag, mutated |-> FALSE]

NoClassifyCall == [called |-> FALSE, source_port |-> 0, destination_port |-> 0,
                   flow |-> Flow(NoIp, NoIp, 0, TRUE, FALSE),
                   replied |-> FALSE, reply |-> Flow(NoIp, NoIp, 0, TRUE, FALSE)]

\* No update_feed call of the scheduler yet.
NoAttempt == [feed_name |-> NULL, result |-> NULL, downloaded |-> FALSE,
              replaced |-> FALSE, stored_enabled |-> TRUE]

\* ThreatFeedScheduler after start(): the thread sleeps its first 30 seconds;
\* `enabled` is the flag of each feed object of the manager the scheduler
\* holds (ThreatFeedBase.__init__: enabled = True).
SchedulerIdle ==
    [pc |-> "startup", todo |-> <<>>, attempted |-> <<>>, rounds |-> 0,
     enabled |-> [f \in FeedNames |-> feed_enabled], last |-> NoAttempt]

\* seq alternates so that two equal requests in a row are told apart.
NoToggleCall == [feed_name |-> NULL, enabled |-> FALSE, result |-> NULL, seq |-> 0]

NoTxn == [pc |-> "idle", backend |-> NULL, feed_name |-> NULL,
          domains |-> {}, ips |-> {}, old |-> EmptyBag, working |-> EmptyBag]

NoReadCall == [called |-> FALSE, domain |-> NULL, backend |-> NULL, during |-> "idle",
               seen |-> {}, old |-> {}, new |-> {}]

NoLookupCall == [backend |-> "none", ip |-> <<0, 0, 0, 0>>, before_timestamp |-> NoTime,
                 at |-> 0, tbl |-> <<>>, result |-> NULL]

Init ==
    /\ now = 0
    /\ flow_cache = EmptyCache
    /\ last_flush = 0
    /\ traffic_flows = <<>>
    /\ dns_lookups = <<>>
    /\ dns_events = <<>>
    /\ accepted = EmptyBag
    /\ uncleared = EmptyBag
    /\ flush_obs = NoFlushYet
    /\ store_failures = 0
    /\ lookup_call = NoLookupCall
    /\ threat_indicators = EmptyBag
    /\ threat_feeds = [f \in FeedNames |-> FeedMeta(NoTime, 0, NULL, feed_enabled)]
    /\ threat_whitelist = {}
    /\ threat_alerts = <<>>
    /\ update_call = NoUpdateCall
    /\ feed_history = [f \in FeedNames |-> NoFeedCall]
    /\ ingest = IngestIdle
    /\ api = ApiIdle
    /\ updaters = [u \in Updaters |-> UpdaterIdle]
    /\ replace_log = <<>>
    /\ txn = NoTxn
    /\ read_call = NoReadCall
    /\ adders = [a \in Adders |-> AdderIdle]
    /\ toggle_call = NoToggleCall
    /\ shutdown = NotStarted
    /\ classify_call = NoClassifyCall
    /\ scheduler = SchedulerIdle

\* The effect of one _flush_cache call on the state and the history.
ApplyFlush(cache, pending, fail_at, pick) ==
    LET r == FlushCache(cache, traffic_flows, last_flush, pick, fail_at, now)
    IN  /\ fail_at # 0 => store_failures < MaxStoreFailures
        /\ store_failures' = IF fail_at # 0 THEN store_failures + 1 ELSE store_failures
        /\ flow_cache' = r.cache
        /\ traffic_flows' = r.traffic_flows
        /\ last_flush' = r.last_flush
        /\ uncleared' = IF r.cache = EmptyCache THEN EmptyBag ELSE pending
        /\ flush_obs' = IF r.ran
                        THEN [called |-> TRUE, before |-> traffic_flows,
                              pending |-> pending, done |-> r.done]
                        ELSE flush_obs

\* TrafficMonitor.process_packet(traffic_data)
ProcessPacket(p) ==
    /\ BagCardinality(accepted) < MaxPackets
    /\ UNCHANGED <<now, dns_lookups, dns_events, lookup_call>>
    /\ UNCHANGED threatVars
    /\ IF ~IsAccepted(p)
       THEN UNCHANGED <<flow_cache, last_flush, traffic_flows, accepted, uncleared,
                        flush_obs, store_failures>>
       ELSE LET cache1 == CacheAfterPacket(flow_cache, p, now)
                pending == uncleared (+) SetToBag({Raw(p)})
            IN  /\ accepted' = accepted (+) SetToBag({Raw(p)})
                /\ IF now - last_flush >= cache_flush_interval
                   THEN \E fail_at \in 0..Len(cache1.keys) :
                        \E pick \in Picks(cache1, dns_lookups, now) :
                            ApplyFlush(cache1, pending, fail_at, pick)
                   ELSE /\ flow_cache' = cache1
                        /\ uncleared' = pending
                        /\ UNCHANGED <<last_flush, traffic_flows, flush_obs, store_failures>>

\* TrafficMonitor.flush()
Flush ==
    /\ UNCHANGED <<now, dns_lookups, dns_events, accepted, lookup_call>>
    /\ UNCHANGED threatVars
    /\ \E fail_at \in 0..Len(flow_cache.keys) :
       \E pick \in Picks(flow_cache, dns_lookups, now) :
           ApplyFlush(flow_cache, uncleared, fail_at, pick)

\* The lookback window of the reverse lookup, in seconds.
WindowSeconds == orphaned_ip_days * SecondsPerDay

\* The clock advances by d seconds.
Tick(d) ==
    /\ (now % WindowSeconds) + d <= MaxShortTime
    /\ now' = now + d
    /\ UNCHANGED <<flow_cache, last_flush, traffic_flows, dns_lookups, dns_events,
                   accepted, uncleared, flush_obs, store_failures, lookup_call>>
    /\ UNCHANGED threatVars

\* The clock advances by the whole lookback window (once).
TickWindow ==
    /\ now < WindowSeconds
    /\ now' = now + WindowSeconds
    /\ UNCHANGED <<flow_cache, last_flush, traffic_flows, dns_lookups, dns_events,
                   accepted, uncleared, flush_obs, store_failures, lookup_call>>
    /\ UNCHANGED threatVars

NoRow == <<NULL, NULL>>

\* dns_logger.py lines 93-134: the summary row written for one event;
\* `existing` is the key returned by get_dns_lookup_by_domain, or NoRow.
LookupsAfterEvent(tbl, ev, existing) ==
    IF ev.type = "query"
    THEN IF existing # NoRow /\ existing[2] = ev.query_type
         THEN insert_dns_lookup(tbl, ev.domain, ev.query_type,
                                tbl[existing].resolved_ips, ev.timestamp, NoTime)
         ELSE insert_dns_lookup(tbl, ev.domain, ev.query_type, <<>>, ev.timestamp, NoTime)
    ELSE LET resolved_ips == IpsOfAnswers(ev.resolved_ips)
             is_new_domain == existing = NoRow
             is_new_type == existing = NoRow \/ existing[2] # ev.query_type
             first_seen == IF is_new_domain \/ is_new_type THEN ev.timestamp ELSE NoTime
         IN  IF ev.query_type \in {"A", "AAAA"} /\ resolved_ips # <<>>
             THEN insert_dns_lookup(tbl, ev.domain, ev.query_type, resolved_ips,
                                    ev.timestamp, first_seen)
             ELSE tbl

\* DNSLogger.log_dns(dns_data): the threat check of the domain, the event
\* row, the summary row, and the threat check of the resolved addresses.
LogDnsUpTo(ev, max_events) ==
    /\ Len(dns_events) < max_events
    /\ \E a1 \in LiveDomainAlerts(threat_alerts, threat_indicators, threat_whitelist,
                                   ev.domain) :
       \E a2 \in (IF ev.type = "response"
                  THEN LiveIpAlerts(a1, threat_indicators, threat_whitelist, ev.domain,
                                    IpsOfAnswers(ev.resolved_ips))
                  ELSE {a1}) :
           threat_alerts' = a2
    /\ UNCHANGED <<threat_indicators, threat_feeds, threat_whitelist>>
    /\ UNCHANGED <<callVars, raceVars>>
    /\ dns_events' = Append(dns_events,
                            [ev EXCEPT !.resolved_ips =
                                IF ev.type = "response" THEN @ ELSE <<>>])
    /\ LET found == get_dns_lookup_by_domain(dns_lookups, ev.domain)
       IN  \E existing \in (IF found = {} THEN {NoRow} ELSE found) :
               dns_lookups' = LookupsAfterEvent(dns_lookups, ev, existing)
    /\ UNCHANGED <<now, flow_cache, last_flush, traffic_flows,
                   accepted, uncleared, flush_obs, store_failures, lookup_call>>

LogDns(ev) == LogDnsUpTo(ev, MaxDnsEvents)

Next ==
    \/ \E p \in Packets(now) : ProcessPacket(p)
    \/ Flush
    \/ Tick(TickShort)
    \/ TickWindow

Spec == Init /\ [][Next]_vars

\* Flows and DNS answers of the binding scenarios.
BindShapes ==
    { <<Local1, 54321, Public1, 443, 60>>,
      <<Public1, 5000, Public2, 443, 60>> }

BindPackets(ts) == { Packet(e[1], e[2], e[3], e[4], e[5], ts) : e \in BindShapes }

BindDnsEvents(ts) ==
    { DnsEvent("response", "example.com", "A", <<AnswerA(ip)>>, ts) :
            ip \in {Public1, Public2} }
        \cup { DnsEvent("response", "foo.test", "A", <<AnswerA(Public1)>>, ts) }
        \cup { DnsEvent("query", "example.com", "A", <<>>, ts) }

NextBind ==
    \/ \E p \in BindPackets(now) : ProcessPacket(p)
    \/ Flush
    \/ \E ev \in BindDnsEvents(now) : LogDns(ev)
    \/ Tick(TickShort)
    \/ TickWindow

SpecBind == Init /\ [][NextBind]_vars

-----------------------------------------------------------------------------
(* Sums over the history bags *)

RECURSIVE SumOver(_, _)
SumOver(S, f) ==
    IF S = {} THEN 0
    ELSE LET x == CHOOSE y \in S : TRUE
         IN  f[x] + SumOver(S \ {x}, f)

\* Number of packets, and their bytes, among the packets of bag B that satisfy keep.
CountIn(B, keep(_)) ==
    LET S == { r \in DOMAIN B : keep(r) }
    IN  SumOver(S, [r \in S |-> B[r]])

BytesIn(B, keep(_)) ==
    LET S == { r \in DOMAIN B : keep(r) }
    IN  SumOver(S, [r \in S |-> B[r] * r.packet_size])

BothPublic(r) == ~IsLocalIp(r.source_ip) /\ ~IsLocalIp(r.destination_ip)

\* r travels from `client` to port `port` of `server`.
IsToServer(r, client, server, port, protocol) ==
    /\ r.source_ip = client /\ r.destination_ip = server
    /\ r.destination_port = port /\ r.protocol = protocol

\* r travels from port `port` of `server` back to `client`.
IsFromServer(r, client, server, port, protocol) ==
    /\ r.source_ip = server /\ r.destination_ip = client
    /\ r.source_port = port /\ r.protocol = protocol

\* Every flow held in the cache or the store, as <<key, is_abnormal>>.
FlaggedFlows ==
    { <<k, flow_cache.data[k].is_abnormal>> : k \in CacheKeys(flow_cache) }
        \cup { <<k, traffic_flows[k].is_abnormal>> : k \in DOMAIN traffic_flows }

-----------------------------------------------------------------------------
(* Claims about the accounting, checked under Spec *)

\* C1 (as claimed): no packet is double-counted.  For every stored flow row,
\* bytes_sent, bytes_received and packet_count never exceed the sums over the
\* packets accepted for that flow key, also after a flush in which an upsert
\* raised.
C1_NoDoubleCount ==
    \A k \in DOMAIN traffic_flows :
        LET ofKey(r) == FlowKey(r) = k
            sent(r) == FlowKey(r) = k /\ Classify(r).is_outbound_packet
            received(r) == FlowKey(r) = k /\ ~Classify(r).is_outbound_packet
        IN  /\ traffic_flows[k].packet_count <= CountIn(accepted, ofKey)
            /\ traffic_flows[k].bytes_sent <= BytesIn(accepted, sent)
            /\ traffic_flows[k].bytes_received <= BytesIn(accepted, received)

RowTotal(tbl, k) ==
    IF k \in DOMAIN tbl THEN tbl[k].bytes_sent + tbl[k].bytes_received ELSE 0

RowCount(tbl, k) ==
    IF k \in DOMAIN tbl THEN tbl[k].packet_count ELSE 0

\* C2 (as claimed): for every accepted packet P, after the next flush the row
\* of P's flow key has bytes_sent + bytes_received increased by at least
\* size(P) and packet_count by at least 1.
C2_NextFlushStores ==
    flush_obs.called =>
        \A r \in DOMAIN flush_obs.pending :
            LET k == FlowKey(r)
            IN  /\ RowTotal(traffic_flows, k) >= RowTotal(flush_obs.before, k) + r.packet_size
                /\ RowCount(traffic_flows, k) >= RowCount(flush_obs.before, k) + 1

\* C2 (amended): after a flush in which the upsert of P's flow key did not
\* raise, the row has grown by at least the bytes and the number of the
\* packets that awaited the flush; when the upsert of the key was not reached
\* or raised, the packets stay accounted in the cache entry of the key.
C2_FlushStoresOrKeeps ==
    flush_obs.called =>
        \A r \in DOMAIN flush_obs.pending :
            LET k == FlowKey(r)
                ofKey(x) == FlowKey(x) = k
            IN  IF k \in flush_obs.done
                THEN /\ RowTotal(traffic_flows, k) >=
                            RowTotal(flush_obs.before, k) + BytesIn(flush_obs.pending, ofKey)
                     /\ RowCount(traffic_flows, k) >=
                            RowCount(flush_obs.before, k) + CountIn(flush_obs.pending, ofKey)
                ELSE /\ k \in CacheKeys(flow_cache)
                     /\ flow_cache.data[k].bytes_sent + flow_cache.data[k].bytes_received
                            >= BytesIn(flush_obs.pending, ofKey)
                     /\ flow_cache.data[k].packet_count >= CountIn(flush_obs.pending, ofKey)

\* Witness of C2: a flush in which one upsert succeeded and a later one raised.
C2_Witness ==
    /\ flush_obs.called
    /\ \E r1, r2 \in DOMAIN flush_obs.pending :
        FlowKey(r1) \in flush_obs.done /\ FlowKey(r2) \notin flush_obs.done

\* C5: packets of both directions of a local-to-public connection accumulate
\* under the key (local_ip, public_ip, public-side port, protocol), and the
\* cache counters are a function of the multiset of packets alone:
\* bytes_sent is the local-to-public byte sum, bytes_received the
\* public-to-local byte sum, packet_count the number of both.
C5_DirectionIndependent ==
    /\ \A r \in DOMAIN uncleared :
        /\ IsLocalIp(r.source_ip) /\ ~IsLocalIp(r.destination_ip) =>
            <<r.source_ip, r.destination_ip, r.destination_port, r.protocol>>
                \in CacheKeys(flow_cache)
        /\ ~IsLocalIp(r.source_ip) /\ IsLocalIp(r.destination_ip) =>
            <<r.destination_ip, r.source_ip, r.source_port, r.protocol>>
                \in CacheKeys(flow_cache)
    /\ \A k \in CacheKeys(flow_cache) :
        IsLocalIp(k[1]) /\ ~IsLocalIp(k[2]) =>
            LET out(r) == IsToServer(r, k[1], k[2], k[3], k[4])
                back(r) == IsFromServer(r, k[1], k[2], k[3], k[4])
            IN  /\ flow_cache.data[k].bytes_sent = BytesIn(uncleared, out)
                /\ flow_cache.data[k].bytes_received = BytesIn(uncleared, back)
                /\ flow_cache.data[k].packet_count =
                        CountIn(uncleared, out) + CountIn(uncleared, back)

\* Witness of C5: one cache entry holds packets of both directions.
C5_Witness ==
    \E k \in CacheKeys(flow_cache) :
        /\ IsLocalIp(k[1]) /\ ~IsLocalIp(k[2])
        /\ flow_cache.data[k].bytes_sent > 0
        /\ flow_cache.data[k].bytes_received > 0
        /\ flow_cache.data[k].packet_count >= 3

IsReverse(r1, r2) ==
    /\ r2.source_ip = r1.destination_ip /\ r2.source_port = r1.destination_port
    /\ r2.destination_ip = r1.source_ip /\ r2.destination_port = r1.source_port
    /\ r2.protocol = r1.protocol

C9_AbnormalLatched ==
    [][\A f \in FlaggedFlows : f[2] => <<f[1], FALSE>> \notin FlaggedFlows']_vars

\* Witness of C9: an abnormal row is stored and later packets of its key are cached.
C9_Witness ==
    \E k \in DOMAIN traffic_flows :
        /\ traffic_flows[k].is_abnormal
        /\ k \in CacheKeys(flow_cache)
        /\ flow_cache.data[k].is_abnormal

-----------------------------------------------------------------------------
(* Claims about the flow-to-domain binding, checked under SpecBind *)

\* C3 (as claimed): a stored non-abnormal row has a domain only if a
\* dns_lookups row of that domain has first_seen <= the flow row's first_seen;
\* DNS first seen after the flow started never binds the flow.
C3_BindingPredatesFlow ==
    \A k \in DOMAIN traffic_flows :
        ~traffic_flows[k].is_abnormal /\ traffic_flows[k].domain # NULL =>
            \E j \in DOMAIN dns_lookups :
                /\ j[1] = traffic_flows[k].domain
                /\ dns_lookups[j].first_seen <= traffic_flows[k].first_seen

\* C8: an abnormal flow is never bound to a domain.  Its stored row has
\* domain NULL and is_orphaned = true, whatever dns_lookups holds for its
\* server_ip.
C8_AbnormalNeverBound ==
    \A k \in DOMAIN traffic_flows :
        traffic_flows[k].is_abnormal =>
            traffic_flows[k].domain = NULL /\ traffic_flows[k].is_orphaned

\* Witness of C8: an abnormal row is stored while the reverse lookup of its
\* server_ip, bounded by the row's first_seen, finds a domain.
C8_Witness ==
    \E k \in DOMAIN traffic_flows :
        /\ traffic_flows[k].is_abnormal
        /\ NULL \notin PgGetDomainByIp(dns_lookups, k[2], orphaned_ip_days,
                                       traffic_flows[k].first_seen, now)

\* C10: once a stored flow row has a domain, no later flush sets it to NULL.
C10_DomainSticky ==
    [][\A k \in DOMAIN traffic_flows :
            traffic_flows[k].domain # NULL =>
                k \in DOMAIN traffic_flows' /\ traffic_flows'[k].domain # NULL]_vars

\* Witness of C10: a row keeps its domain after an upsert whose reverse
\* lookup found nothing (is_orphaned is the outcome of the latest lookup).
C10_Witness ==
    \E k \in DOMAIN traffic_flows :
        traffic_flows[k].domain # NULL /\ traffic_flows[k].is_orphaned

\* Witness of C10 through the lookback window: the binding has expired.
C10_WitnessExpired ==
    \E k \in DOMAIN traffic_flows :
        /\ traffic_flows[k].domain # NULL /\ traffic_flows[k].is_orphaned
        /\ \E j \in DOMAIN dns_lookups :
            /\ k[2] \in SeqToSet(dns_lookups[j].resolved_ips)
            /\ dns_lookups[j].last_seen < now - WindowSeconds

-----------------------------------------------------------------------------
(* get_domain_by_ip called on the tables that log_dns builds: SpecLookup *)

LookupCall(backend, ip, before_timestamp, result) ==
    [backend |-> backend, ip |-> ip, before_timestamp |-> before_timestamp,
     at |-> now, tbl |-> dns_lookups, result |-> result]

\* PostgreSQLDatabase.get_domain_by_ip(ip, orphaned_ip_days, before_timestamp)
CallPgGetDomainByIp(ip, before_timestamp) ==
    /\ \E result \in PgGetDomainByIp(dns_lookups, ip, orphaned_ip_days, before_timestamp, now) :
        lookup_call' = LookupCall("postgresql", ip, before_timestamp, result)
    /\ UNCHANGED <<now, flow_cache, last_flush, traffic_flows, dns_lookups, dns_events,
                   accepted, uncleared, flush_obs, store_failures>>
    /\ UNCHANGED threatVars

\* SQLiteDatabase.get_domain_by_ip(ip, orphaned_ip_days)
CallSqliteGetDomainByIp(ip) ==
    /\ \E result \in SqliteGetDomainByIp(dns_lookups, ip, orphaned_ip_days, now) :
        lookup_call' = LookupCall("sqlite", ip, NoTime, result)
    /\ UNCHANGED <<now, flow_cache, last_flush, traffic_flows, dns_lookups, dns_events,
                   accepted, uncleared, flush_obs, store_failures>>
    /\ UNCHANGED threatVars

LookupIps == {Public2, Public3}

LookupDnsEvents(ts) ==
    { DnsEvent("response", d, "A", <<AnswerA(ip)>>, ts) : d \in Domains, ip \in LookupIps }

LookupBounds == {NoTime, 0, TickShort, WindowSeconds}

NextLookup ==
    \/ \E ev \in LookupDnsEvents(now) : LogDns(ev)
    \/ Tick(TickShort)
    \/ TickWindow
    \/ \E ip \in LookupIps, b \in LookupBounds : CallPgGetDomainByIp(ip, b)
    \/ \E ip \in LookupIps : CallSqliteGetDomainByIp(ip)

SpecLookup == Init /\ [][NextLookup]_vars

\* The rows that qualify for a call: ip in resolved_ips, last_seen within the
\* window, and first_seen <= before_timestamp when the bound is given.
C4_Qualifying(c) ==
    { k \in DOMAIN c.tbl :
        /\ \E i \in DOMAIN c.tbl[k].resolved_ips : c.tbl[k].resolved_ips[i] = c.ip
        /\ c.tbl[k].last_seen >= c.at - orphaned_ip_days * SecondsPerDay
        /\ (c.before_timestamp # NoTime => c.tbl[k].first_seen <= c.before_timestamp) }

C4_Contract(c) ==
    IF C4_Qualifying(c) = {}
    THEN c.result = NULL
    ELSE \E k \in C4_Qualifying(c) :
            /\ c.result = k[1]
            /\ \A j \in C4_Qualifying(c) : c.tbl[j].first_seen <= c.tbl[k].first_seen

C4_PgLookupContract ==
    lookup_call.backend = "postgresql" => C4_Contract(lookup_call)

\* A PostgreSQL call that chose among several qualifying rows under a bound.
C4_PgWitness ==
    /\ lookup_call.backend = "postgresql"
    /\ lookup_call.before_timestamp # NoTime
    /\ Cardinality(C4_Qualifying(lookup_call)) = 1
    /\ Cardinality(C4_Qualifying([lookup_call EXCEPT !.before_timestamp = NoTime])) = 2

-----------------------------------------------------------------------------
(* Threat alerts on the live path and the rescan path: SpecAlert *)

\* POST /api/threat/whitelist: add_threat_whitelist, then
\* resolve_threat_alerts_by_indicator for the same domain / ip.
AddWhitelist(indicator_type, domain, ip) ==
    /\ LET added == add_threat_whitelist(threat_whitelist, indicator_type, domain, ip)
       IN  /\ threat_whitelist' = added.wl
           /\ threat_alerts' = IF added.result = "error" THEN threat_alerts
                               ELSE resolve_threat_alerts_by_indicator(threat_alerts, domain, ip)
    /\ UNCHANGED <<now, flowVars, dnsVars, threat_indicators, threat_feeds, callVars, raceVars>>

\* POST /api/threat/scan-historical (days = 30)
ScanHistorical(fetched) ==
    /\ fetched \/ Len(threat_alerts) < MaxUncheckedAlerts
    /\ \E alerts \in scan_historical_dns(threat_alerts, threat_indicators, threat_whitelist,
                                         dns_events, scan_days, now, fetched) :
        threat_alerts' = alerts
    /\ UNCHANGED <<now, flowVars, dnsVars, threat_indicators, threat_feeds, threat_whitelist,
                   callVars, raceVars>>

\* Indicator rows the store may hold when the monitor starts: domains and a
\* public address listed by the registered feeds, and a private address
\* listed in an operator-curated feed.
AlertRows ==
    { IndicatorRow("URLhaus", "domain", "evil.com", NoIp),
      IndicatorRow("PhishingArmy", "domain", "evil.com", NoIp),
      IndicatorRow("URLhaus", "domain", "a.evil.com", NoIp),
      IndicatorRow("URLhaus", "ip", NULL, Public1),
      IndicatorRow("custom", "ip", NULL, Local1) }

InitAlert ==
    /\ now = 0
    /\ flow_cache = EmptyCache
    /\ last_flush = 0
    /\ traffic_flows = <<>>
    /\ dns_lookups = <<>>
    /\ dns_events = <<>>
    /\ accepted = EmptyBag
    /\ uncleared = EmptyBag
    /\ flush_obs = NoFlushYet
    /\ store_failures = 0
    /\ lookup_call = NoLookupCall
    /\ threat_indicators \in { SetToBag(rows) : rows \in SUBSET AlertRows }
    /\ threat_feeds = [f \in FeedNames |-> FeedMeta(NoTime, 0, NULL, feed_enabled)]
    /\ threat_whitelist = {}
    /\ threat_alerts = <<>>
    /\ update_call = NoUpdateCall
    /\ feed_history = [f \in FeedNames |-> NoFeedCall]
    /\ ingest = IngestIdle
    /\ api = ApiIdle
    /\ updaters = [u \in Updaters |-> UpdaterIdle]
    /\ replace_log = <<>>
    /\ txn = NoTxn
    /\ read_call = NoReadCall
    /\ adders = [a \in Adders |-> AdderIdle]
    /\ toggle_call = NoToggleCall
    /\ shutdown = NotStarted
    /\ classify_call = NoClassifyCall
    /\ scheduler = SchedulerIdle

AlertDnsEvents(ts) ==
    { DnsEvent("response", d, "A", <<AnswerA(ip)>>, ts) :
            d \in {"evil.com", "A.EVIL.COM"}, ip \in {Public1, Local1} }
        \cup { DnsEvent("query", "a.evil.com", "A", <<>>, ts) }

NextAlert ==
    \/ \E ev \in AlertDnsEvents(now) : LogDns(ev)
    \/ AddWhitelist("domain", "evil.com", NoIp)
    \/ AddWhitelist("ip", NULL, Public1)
    \/ \E fetched \in BOOLEAN : ScanHistorical(fetched)

SpecAlert == InitAlert /\ [][NextAlert]_vars

\* Is the domain d, or a parent of d, on the whitelist?
DomainWhitelisted(wl, d) == d # NULL /\ is_threat_whitelisted(wl, d, NoIp)

\* The alert rows a step inserts.
NewAlerts == { threat_alerts'[i] : i \in (DOMAIN threat_alerts') \ (DOMAIN threat_alerts) }

\* C11 (as claimed): no step inserts an alert row whose domain is a
\* whitelisted domain or a subdomain of one, on the live path (domain check
\* and resolved-address check) or the rescan path.
C11_NoAlertForWhitelistedDomain ==
    [][\A a \in NewAlerts : ~DomainWhitelisted(threat_whitelist, a.domain)]_vars

\* C13 (as claimed): no alert row carries a private / loopback / link-local /
\* multicast address, whatever the indicator table holds.
C13_NoPrivateIpAlert ==
    \A i \in DOMAIN threat_alerts :
        threat_alerts[i].ip # NoIp => ~IsLocalIp(threat_alerts[i].ip)

\* Is x.y.z (evil.com) a domain indicator of some feed?
HasIndicator(tbl, d) ==
    \E r \in BagToSet(tbl) : r.indicator_type = "domain" /\ r.domain = d

\* C14 (as claimed): whenever evil.com is a domain indicator,
\* check_domain("a.evil.com") may return exactly the rows
\* check_domain("evil.com") may return.
C14_SuffixLaw ==
    HasIndicator(threat_indicators, "evil.com") =>
        check_domain(threat_indicators, "a.evil.com")
            = check_domain(threat_indicators, "evil.com")

\* C14 (amended): the law holds when a.evil.com is not an indicator itself;
\* when it is, check_domain("a.evil.com") returns the rows of a.evil.com.
C14_SuffixLawUnlessExact ==
    HasIndicator(threat_indicators, "evil.com") =>
        IF HasIndicator(threat_indicators, "a.evil.com")
        THEN check_domain(threat_indicators, "A.EVIL.COM")
                = check_threat_indicator(threat_indicators, "a.evil.com", NoIp)
        ELSE /\ check_domain(threat_indicators, "A.EVIL.COM")
                    = check_domain(threat_indicators, "evil.com")
             /\ check_domain(threat_indicators, "a.evil.com")
                    = check_domain(threat_indicators, "evil.com")
             /\ check_domain(threat_indicators, "evil.com") # {}

\* Witness of C14: log_dns has raised a domain alert for a.evil.com from the
\* indicator evil.com, which two feeds list, a.evil.com being no indicator.
C14_Witness ==
    /\ ~HasIndicator(threat_indicators, "a.evil.com")
    /\ Cardinality(check_domain(threat_indicators, "evil.com")) = 2
    /\ \E i \in DOMAIN threat_alerts :
        /\ threat_alerts[i].indicator_type = "domain"
        /\ threat_alerts[i].domain = "a.evil.com"

-----------------------------------------------------------------------------
(* Feed updates, one call at a time: SpecFeed *)

MaxFeedHours == 3     \* the clock of the feed specifications stops after this many hours

MaxFeedTime == MaxFeedHours * SecondsPerHour

\* The instants at which update_feed is called: the start, and one second
\* before and exactly at each multiple of the throttle interval.
FeedTimes ==
    { t \in { k * ThrottleSeconds - e : k \in 0..((MaxFeedTime \div ThrottleSeconds) + 1),
                                        e \in {0, 1} } : t >= 0 /\ t <= MaxFeedTime }

\* What the feed URL may serve.
FeedContents ==
    { FeedContent({"evil.com", "printer.local"}, {Public1, Local1}),
      FeedContent({"A.EVIL.COM"}, {}) }

\* One call of update_feed (scheduler tick or POST /feeds/{name}/update).
UpdateFeedAs(feed_name, force, outcome, content, enabled) ==
    LET r == update_feed(threat_indicators, threat_feeds, feed_name, force, outcome, content,
                         now, enabled)
    IN  /\ threat_indicators' = r.indicators
        /\ threat_feeds' = r.feeds
        /\ update_call' = [feed_name |-> feed_name, force |-> force, at |-> now,
                           outcome |-> outcome, content |-> content,
                           result |-> r.result, downloaded |-> r.downloaded,
                           stored_last_update |-> threat_feeds[feed_name].last_update,
                           repeated |-> /\ r.result = "success"
                                        /\ feed_history[feed_name]
                                                = [result |-> "success", content |-> content]]
        /\ feed_history' = IF r.result = "throttled" THEN feed_history
                           ELSE [feed_history EXCEPT ![feed_name] =
                                    [result |-> r.result, content |-> content]]
        /\ UNCHANGED <<now, flowVars, dnsVars, threat_whitelist, threat_alerts, raceVars>>

\* update_feed of a manager whose feed objects have the constructor's flag.
UpdateFeed(feed_name, force, outcome, content) ==
    UpdateFeedAs(feed_name, force, outcome, content, feed_enabled)

TickFeed ==
    /\ \E t \in FeedTimes : t > now /\ now' = t
    /\ UNCHANGED <<flowVars, dnsVars, threatVars>>

NextFeed ==
    \/ \E f \in FeedNames, force \in BOOLEAN, o \in UpdateOutcomes, c \in FeedContents :
            UpdateFeed(f, force, o, c)
    \/ TickFeed

SpecFeed == Init /\ [][NextFeed]_vars

\* Has update_feed been called?
Called == update_call.feed_name # NULL

\* The step is a call of update_feed (update_call' records it).
IsUpdateCall == update_call' # update_call

\* C15: a call of update_feed is throttled exactly when it is not forced, the
\* stored last_update exists and now - last_update < 3h; a throttled call
\* downloads nothing and leaves indicators and metadata as they were.
C15_ThrottleExactly3h ==
    [][IsUpdateCall =>
        LET c == update_call'
            meta == threat_feeds[c.feed_name]
        IN  /\ (c.result = "throttled")
                  <=> /\ ~c.force
                      /\ meta.last_update # NoTime
                      /\ now - meta.last_update < throttle_hours * SecondsPerHour
            /\ (c.result = "throttled") =>
                  /\ ~c.downloaded
                  /\ threat_indicators' = threat_indicators
                  /\ threat_feeds' = threat_feeds]_vars

\* Witness of C15: an unforced call at exactly last_update + 3h went through.
C15_Witness ==
    /\ Called
    /\ ~update_call.force
    /\ update_call.stored_last_update # NoTime
    /\ update_call.at = update_call.stored_last_update + throttle_hours * SecondsPerHour
    /\ update_call.result = "success"
    /\ update_call.downloaded

\* C17 (as claimed): when update_feed fails (download, parse or store error),
\* the indicators are those from before the call and the stored metadata of
\* the feed has last_error set.
C17_FailureRecorded ==
    [][(IsUpdateCall /\ update_call'.result \in {"download_failed", "error"}) =>
        /\ threat_indicators' = threat_indicators
        /\ threat_feeds'[update_call'.feed_name].last_error # NULL]_vars

\* C19: a successful update of a feed that follows a successful update of the
\* same feed with the same downloaded content leaves the rows of the feed and
\* its indicator_count as they were, and no row of the feed is duplicated.
C19_ReplaceIdempotent ==
    [][(/\ IsUpdateCall
        /\ update_call'.result = "success"
        /\ feed_history[update_call'.feed_name].result = "success"
        /\ feed_history[update_call'.feed_name].content = update_call'.content) =>
        LET f == update_call'.feed_name
        IN  /\ RowsOfFeed(threat_indicators', f) = RowsOfFeed(threat_indicators, f)
            /\ threat_feeds'[f].indicator_count = threat_feeds[f].indicator_count
            /\ \A r \in DOMAIN threat_indicators' :
                    r.feed_name = f => threat_indicators'[r] = 1]_vars

\* Witness of C19: the same two-indicator content stored twice in a row, next
\* to the rows of the other feed.
C19_Witness ==
    /\ Called
    /\ update_call.result = "success"
    /\ update_call.repeated
    /\ threat_feeds[update_call.feed_name].indicator_count = 2
    /\ \E r \in DOMAIN threat_indicators : r.feed_name # update_call.feed_name

-----------------------------------------------------------------------------
(* The DNS summary table under queries and responses: SpecDnsMemory *)

\* Queries and responses for one domain, of both address types, stamped with
\* the current time or with an earlier one (packets handed over late);
\* responses with an address, with a CNAME only, and with no answer.
MemoryDnsEvents(t) ==
    { DnsEvent("response", "example.com", q, <<AnswerA(ip)>>, ts) :
            q \in {"A", "AAAA"}, ip \in {Public1, Public2}, ts \in {0, t} }
        \cup { DnsEvent("response", "example.com", q, answers, ts) :
            q \in {"A", "AAAA"}, answers \in {<<>>, <<AnswerCname>>}, ts \in {0, t} }
        \cup { DnsEvent("query", "example.com", q, <<>>, ts) :
            q \in {"A", "AAAA"}, ts \in {0, t} }

NextDnsMemory ==
    \/ \E ev \in MemoryDnsEvents(now) : LogDns(ev)
    \/ Tick(TickShort)

SpecDnsMemory == Init /\ [][NextDnsMemory]_vars

\* C20: no step changes the first_seen of an existing (domain, qtype) row.
C20_FirstSeenFixed ==
    [][\A k \in DOMAIN dns_lookups :
            /\ k \in DOMAIN dns_lookups'
            /\ dns_lookups'[k].first_seen = dns_lookups[k].first_seen]_vars

\* Witness of C20: a row that an event with an earlier timestamp has updated
\* after its creation (last_seen lies before first_seen).
C20_Witness ==
    \E k \in DOMAIN dns_lookups :
        /\ dns_lookups[k].last_seen < dns_lookups[k].first_seen
        /\ Len(dns_events) = 2

\* A second witness of C20: rows of both query types of the domain exist.
C20_WitnessOtherType ==
    /\ <<"example.com", "A">> \in DOMAIN dns_lookups
    /\ <<"example.com", "AAAA">> \in DOMAIN dns_lookups

-----------------------------------------------------------------------------
(* log_dns interleaved with POST /api/threat/whitelist: SpecIngestRace *)
(* The ingest thread and the API request share only the database; each     *)
(* database call is one step.                                              *)

\* log_dns is entered with a query for domain d.
IngestStart(d) ==
    /\ ingest.pc = "idle"
    /\ Len(dns_events) < MaxDnsEvents
    /\ ingest' = [pc |-> "check1", domain |-> d, threat_match |-> {}]
    /\ UNCHANGED <<now, flowVars, dnsVars, storeThreatVars, callVars,
                   api, updaters, replace_log, txn, read_call, adders, toggle_call, shutdown, classify_call, scheduler>>

\* line 57: is_threat_whitelisted(domain=domain_normalized)
IngestCheck1 ==
    /\ ingest.pc = "check1"
    /\ ingest' = [ingest EXCEPT !.pc =
                    IF is_threat_whitelisted(threat_whitelist, Lower(ingest.domain), NoIp)
                    THEN "log" ELSE "match"]
    /\ UNCHANGED <<now, flowVars, dnsVars, storeThreatVars, callVars,
                   api, updaters, replace_log, txn, read_call, adders, toggle_call, shutdown, classify_call, scheduler>>

\* lines 61-62: threat_match = check_domain(domain)
IngestMatch ==
    /\ ingest.pc = "match"
    /\ LET found == check_domain(threat_indicators, ingest.domain)
       IN  IF found = {}
           THEN ingest' = [ingest EXCEPT !.pc = "log"]
           ELSE \E r \in found : ingest' = [ingest EXCEPT !.pc = "check2", !.threat_match = {r}]
    /\ UNCHANGED <<now, flowVars, dnsVars, storeThreatVars, callVars,
                   api, updaters, replace_log, txn, read_call, adders, toggle_call, shutdown, classify_call, scheduler>>

\* line 64: the second is_threat_whitelisted(domain=domain_normalized)
IngestCheck2 ==
    /\ ingest.pc = "check2"
    /\ ingest' = [ingest EXCEPT !.pc =
                    IF is_threat_whitelisted(threat_whitelist, Lower(ingest.domain), NoIp)
                    THEN "log" ELSE "create"]
    /\ UNCHANGED <<now, flowVars, dnsVars, storeThreatVars, callVars,
                   api, updaters, replace_log, txn, read_call, adders, toggle_call, shutdown, classify_call, scheduler>>

\* lines 68-75: create_alert(domain, ip=None, ...)
IngestCreateAlert ==
    /\ ingest.pc = "create"
    /\ \E r \in ingest.threat_match :
        threat_alerts' = create_threat_alert(threat_alerts, ingest.domain, NoIp,
                                             r.feed_name, "domain")
    /\ ingest' = [ingest EXCEPT !.pc = "log"]
    /\ UNCHANGED <<now, flowVars, dnsVars, threat_indicators, threat_feeds, threat_whitelist,
                   callVars, api, updaters, replace_log, txn, read_call, adders, toggle_call, shutdown, classify_call, scheduler>>

\* lines 79-104: the event row and the summary row of the query.
IngestLog ==
    /\ ingest.pc = "log"
    /\ LET ev == DnsEvent("query", ingest.domain, "A", <<>>, now)
           found == get_dns_lookup_by_domain(dns_lookups, ev.domain)
       IN  /\ dns_events' = Append(dns_events, ev)
           /\ \E existing \in (IF found = {} THEN {NoRow} ELSE found) :
                  dns_lookups' = LookupsAfterEvent(dns_lookups, ev, existing)
    /\ ingest' = IngestIdle
    /\ UNCHANGED <<now, flowVars, storeThreatVars, callVars,
                   api, updaters, replace_log, txn, read_call, adders, toggle_call, shutdown, classify_call, scheduler>>

\* routes/threat.py lines 320-325: db.add_threat_whitelist(...)
ApiAddWhitelist(d) ==
    /\ api.pc = "idle"
    /\ threat_whitelist' = add_threat_whitelist(threat_whitelist, "domain", d, NoIp).wl
    /\ api' = [pc |-> "resolve", domain |-> d]
    /\ UNCHANGED <<now, flowVars, dnsVars, threat_indicators, threat_feeds, threat_alerts,
                   callVars, ingest, updaters, replace_log, txn, read_call, adders, toggle_call, shutdown, classify_call, scheduler>>

\* routes/threat.py lines 328-331: db.resolve_threat_alerts_by_indicator(...);
\* the request has completed afterwards.
ApiResolveAlerts ==
    /\ api.pc = "resolve"
    /\ threat_alerts' = resolve_threat_alerts_by_indicator(threat_alerts, api.domain, NoIp)
    /\ api' = [api EXCEPT !.pc = "done"]
    /\ UNCHANGED <<now, flowVars, dnsVars, threat_indicators, threat_feeds, threat_whitelist,
                   callVars, ingest, updaters, replace_log, txn, read_call, adders, toggle_call, shutdown, classify_call, scheduler>>

NextIngestRace ==
    \/ \E d \in {"evil.com", "a.evil.com"} : IngestStart(d)
    \/ IngestCheck1
    \/ IngestMatch
    \/ IngestCheck2
    \/ IngestCreateAlert
    \/ IngestLog
    \/ ApiAddWhitelist("evil.com")
    \/ ApiResolveAlerts

SpecIngestRace == InitAlert /\ [][NextIngestRace]_vars

\* C12 (as claimed): under every interleaving of log_dns with the whitelist
\* request, no step inserts an alert row whose domain is whitelisted at that
\* moment, and once the request has completed no unresolved alert for the
\* whitelisted domain remains.
C12_NoAlertPastWhitelist ==
    [][/\ \A a \in NewAlerts : ~DomainWhitelisted(threat_whitelist, Lower(a.domain))
       /\ api'.pc = "done" =>
            \A i \in DOMAIN threat_alerts' :
                threat_alerts'[i].domain = api'.domain => threat_alerts'[i].resolved]_vars

-----------------------------------------------------------------------------
(* Two callers of update_feed(feed, force=False) interleaved: SpecFeedRace *)
(* The scheduler thread and a manual request each run update_feed on their *)
(* own manager; every database call and the download is one step.          *)

MaxReplaces == 2     \* indicator replacements in one behaviour

RaceFeed == "URLhaus"

RaceContent == FeedContent({"evil.com", "printer.local"}, {Public1, Local1})

\* lines 330-358: the call starts with the throttle check on the stored
\* last_update (db.get_threat_feeds()).
UpdaterReadMeta(u) ==
    /\ updaters[u].pc = "idle"
    /\ Len(replace_log) < MaxReplaces
    /\ updaters' = [updaters EXCEPT ![u] =
                        IF IsThrottled(threat_feeds[RaceFeed], FALSE, now)
                        THEN UpdaterIdle
                        ELSE [pc |-> "download", last_update |-> NoTime]]
    /\ UNCHANGED <<now, flowVars, dnsVars, storeThreatVars, callVars,
                   ingest, api, replace_log, txn, read_call, adders, toggle_call, shutdown, classify_call, scheduler>>

\* lines 360-368 and download(): feed.last_update = utcnow() on success;
\* on failure update_feed returns.
UpdaterDownload(u, ok) ==
    /\ updaters[u].pc = "download"
    /\ updaters' = [updaters EXCEPT ![u] =
                        IF ok THEN [pc |-> "replace", last_update |-> now]
                        ELSE UpdaterIdle]
    /\ UNCHANGED <<now, flowVars, dnsVars, storeThreatVars, callVars,
                   ingest, api, replace_log, txn, read_call, adders, toggle_call, shutdown, classify_call, scheduler>>

\* lines 370-378: extract_domains_and_ips and db.update_threat_indicators
UpdaterReplace(u) ==
    /\ updaters[u].pc = "replace"
    /\ LET parsed == ParseFeed(RaceContent)
       IN  threat_indicators' = update_threat_indicators(threat_indicators, RaceFeed,
                                                         parsed.domains, parsed.ips)
    /\ replace_log' = Append(replace_log, [updater |-> u, at |-> now,
                                           last_update |-> updaters[u].last_update])
    /\ updaters' = [updaters EXCEPT ![u].pc = "write"]
    /\ UNCHANGED <<now, flowVars, dnsVars, threat_feeds, threat_whitelist, threat_alerts,
                   callVars, ingest, api, txn, read_call, adders, toggle_call, shutdown, classify_call, scheduler>>

\* lines 380-388: db.update_threat_feed_metadata(last_update=feed.last_update, ...)
UpdaterWriteMeta(u) ==
    /\ updaters[u].pc = "write"
    /\ LET parsed == ParseFeed(RaceContent)
       IN  threat_feeds' = update_threat_feed_metadata(threat_feeds, RaceFeed,
                                updaters[u].last_update,
                                IndicatorCount(parsed.domains, parsed.ips), feed_enabled, NULL)
    /\ updaters' = [updaters EXCEPT ![u] = UpdaterIdle]
    /\ UNCHANGED <<now, flowVars, dnsVars, threat_indicators, threat_whitelist, threat_alerts,
                   callVars, ingest, api, replace_log, txn, read_call, adders, toggle_call, shutdown, classify_call, scheduler>>

NextFeedRace ==
    \/ \E u \in Updaters : UpdaterReadMeta(u)
    \/ \E u \in Updaters, ok \in BOOLEAN : UpdaterDownload(u, ok)
    \/ \E u \in Updaters : UpdaterReplace(u)
    \/ \E u \in Updaters : UpdaterWriteMeta(u)
    \/ TickFeed

SpecFeedRace == Init /\ [][NextFeedRace]_vars

\* C16 (as claimed): any two unforced updates of the feed that both replaced
\* its indicators are at least 3 hours apart (measured on the download
\* instants the updates record as last_update).
C16_ReplacesThreeHoursApart ==
    \A i, j \in DOMAIN replace_log :
        i < j => replace_log[j].last_update - replace_log[i].last_update
                    >= throttle_hours * SecondsPerHour

-----------------------------------------------------------------------------
(* update_threat_indicators statement by statement, with a reader: SpecReplace *)

Backends == {"postgresql", "sqlite"}

\* The table a reader's query sees.  PostgreSQL: the writer's statements run
\* in a transaction on a pooled connection of its own, so a reader sees the
\* committed table.  SQLite: writer and reader share the one connection
\* (check_same_thread=False), so the reader sees the statements executed so
\* far.
VisibleIndicators ==
    IF txn.pc # "idle" /\ txn.backend = "sqlite" THEN txn.working ELSE threat_indicators

\* update_threat_indicators is entered.
ReplaceBegin(backend, feed_name, content) ==
    /\ txn.pc = "idle"
    /\ LET parsed == ParseFeed(content)
       IN  txn' = [pc |-> "delete", backend |-> backend, feed_name |-> feed_name,
                   domains |-> parsed.domains, ips |-> parsed.ips,
                   old |-> threat_indicators, working |-> threat_indicators]
    /\ UNCHANGED <<now, flowVars, dnsVars, storeThreatVars, callVars,
                   ingest, api, updaters, replace_log, read_call, adders, toggle_call, shutdown, classify_call, scheduler>>

\* DELETE FROM threat_indicators WHERE feed_name = ..
ReplaceDelete ==
    /\ txn.pc = "delete"
    /\ txn' = [txn EXCEPT !.pc = "insert_domains",
                          !.working = RowsOfOtherFeeds(txn.working, txn.feed_name)]
    /\ UNCHANGED <<now, flowVars, dnsVars, storeThreatVars, callVars,
                   ingest, api, updaters, replace_log, read_call, adders, toggle_call, shutdown, classify_call, scheduler>>

\* the bulk insert of the domain indicators
ReplaceInsertDomains ==
    /\ txn.pc = "insert_domains"
    /\ txn' = [txn EXCEPT !.pc = "insert_ips",
                          !.working = txn.working (+)
                              SetToBag(NewIndicatorRows(txn.feed_name, txn.domains, {}))]
    /\ UNCHANGED <<now, flowVars, dnsVars, storeThreatVars, callVars,
                   ingest, api, updaters, replace_log, read_call, adders, toggle_call, shutdown, classify_call, scheduler>>

\* the bulk insert of the address indicators
ReplaceInsertIps ==
    /\ txn.pc = "insert_ips"
    /\ txn' = [txn EXCEPT !.pc = "commit",
                          !.working = txn.working (+)
                              SetToBag(NewIndicatorRows(txn.feed_name, {}, txn.ips))]
    /\ UNCHANGED <<now, flowVars, dnsVars, storeThreatVars, callVars,
                   ingest, api, updaters, replace_log, read_call, adders, toggle_call, shutdown, classify_call, scheduler>>

\* conn.commit()
ReplaceCommit ==
    /\ txn.pc = "commit"
    /\ threat_indicators' = txn.working
    /\ txn' = NoTxn
    /\ UNCHANGED <<now, flowVars, dnsVars, threat_feeds, threat_whitelist, threat_alerts,
                   callVars, ingest, api, updaters, replace_log, read_call, adders, toggle_call, shutdown, classify_call, scheduler>>

\* check_threat_indicator(domain) from another thread; the record keeps what
\* the same query returns on the table before and after the replacement.
ReadIndicator(domain) ==
    /\ read_call' =
          [called |-> TRUE, domain |-> domain, backend |-> txn.backend, during |-> txn.pc,
           seen |-> check_threat_indicator(VisibleIndicators, domain, NoIp),
           old |-> check_threat_indicator(
                       IF txn.pc = "idle" THEN threat_indicators ELSE txn.old, domain, NoIp),
           new |-> check_threat_indicator(
                       IF txn.pc = "idle" THEN threat_indicators
                       ELSE update_threat_indicators(txn.old, txn.feed_name,
                                                     txn.domains, txn.ips),
                       domain, NoIp)]
    /\ UNCHANGED <<now, flowVars, dnsVars, storeThreatVars, callVars,
                   ingest, api, updaters, replace_log, txn, adders, toggle_call, shutdown,
                   classify_call, scheduler>>

NextReplace ==
    \/ \E b \in Backends, c \in FeedContents : ReplaceBegin(b, RaceFeed, c)
    \/ ReplaceDelete
    \/ ReplaceInsertDomains
    \/ ReplaceInsertIps
    \/ ReplaceCommit
    \/ \E d \in {"evil.com", "a.evil.com"} : ReadIndicator(d)

SpecReplace == InitAlert /\ [][NextReplace]_vars

C18_PgReaderSeesOldOrNew ==
    (read_call.called /\ read_call.backend # "sqlite") =>
        (read_call.seen = read_call.old \/ read_call.seen = read_call.new)

\* A reader queried the table in the middle of a PostgreSQL replacement that
\* changes the answer.
C18_PgWitness ==
    /\ read_call.called
    /\ read_call.backend = "postgresql"
    /\ read_call.during = "insert_domains"
    /\ read_call.old # read_call.new

\* C21 (as claimed): no step lowers the last_seen of a (domain, qtype) row,
\* also when the event carries an earlier capture timestamp, and last_seen is
\* never before first_seen.
C21_LastSeenMonotone ==
    [][\A k \in DOMAIN dns_lookups :
            k \in DOMAIN dns_lookups' =>
                /\ dns_lookups'[k].last_seen >= dns_lookups[k].last_seen
                /\ dns_lookups'[k].last_seen >= dns_lookups'[k].first_seen]_vars

\* Has a response with an address answer been ingested for the key k?
ResponseIngested(k) ==
    \E i \in DOMAIN dns_events :
        /\ dns_events[i].type = "response"
        /\ dns_events[i].domain = k[1]
        /\ dns_events[i].query_type = k[2]
        /\ IpsOfAnswers(dns_events[i].resolved_ips) # <<>>

\* C22 (as claimed): a (domain, qtype) row exists exactly when an A/AAAA
\* response with at least one address for the pair has been ingested; queries
\* and responses without an address leave the table alone.
C22_RowIffResponse ==
    \A d \in {"example.com"}, q \in {"A", "AAAA"} :
        (<<d, q>> \in DOMAIN dns_lookups) <=> ResponseIngested(<<d, q>>)

\* The response half of C22 alone: a response without an address writes the
\* event row and no summary row, and a response with one writes both.
C22_ResponsesOnly ==
    [][(Len(dns_events') > Len(dns_events) /\ dns_events'[Len(dns_events')].type = "response") =>
        LET ev == dns_events'[Len(dns_events')]
            k == <<ev.domain, ev.query_type>>
        IN  IF IpsOfAnswers(ev.resolved_ips) = <<>>
            THEN dns_lookups' = dns_lookups
            ELSE k \in DOMAIN dns_lookups']_vars

\* The key scan_historical_dns compares alerts by: the lower-cased domain or
\* the address, the feed and the indicator type.
SameAlertKey(a, b) ==
    /\ a.indicator_type = b.indicator_type
    /\ a.feed_name = b.feed_name
    /\ IF a.indicator_type = "domain" THEN Lower(a.domain) = Lower(b.domain)
       ELSE a.ip = b.ip

\* The step is a run of scan_historical_dns that created alerts.
IsScanStep == dns_events' = dns_events /\ Len(threat_alerts') > Len(threat_alerts)

\* C23 (as claimed): an alert the scan creates has a key different from that
\* of every alert that existed before the scan and of every alert created
\* earlier in the same scan.
C23_ScanNoDuplicateKey ==
    [][IsScanStep =>
        \A i \in (DOMAIN threat_alerts') \ (DOMAIN threat_alerts) :
            \A j \in 1..(i - 1) : ~SameAlertKey(threat_alerts'[i], threat_alerts'[j])]_vars

\* The step is a whitelist request that added the entry w.
AddedEntry(w) == w \in threat_whitelist' /\ w \notin threat_whitelist

\* Does the alert a carry the domain or the address of the whitelist entry w?
AlertOfEntry(a, w) ==
    IF w.indicator_type = "domain" THEN a.domain = w.domain ELSE a.ip = w.ip

\* The whitelist request resolves the unresolved alerts of the new entry and
\* leaves every other alert as it was.
ResolvesExactly(w) ==
    /\ DOMAIN threat_alerts' = DOMAIN threat_alerts
    /\ \A i \in DOMAIN threat_alerts :
          threat_alerts'[i] =
              IF ~threat_alerts[i].resolved /\ AlertOfEntry(threat_alerts[i], w)
              THEN [threat_alerts[i] EXCEPT !.resolved = TRUE]
              ELSE threat_alerts[i]

\* The step is log_dns of an event for a domain that has a whitelist entry.
LogsWhitelistedDomain ==
    /\ Len(dns_events') = Len(dns_events) + 1
    /\ \E w \in threat_whitelist :
          /\ w.indicator_type = "domain"
          /\ w.domain = Lower(dns_events'[Len(dns_events')].domain)

\* C24 (as claimed): adding a whitelist entry resolves every unresolved alert
\* with that domain (or address) and changes no other alert, and a later DNS
\* event for the whitelisted domain creates no alert.
C24_WhitelistResolvesAndSilences ==
    [][/\ \A w \in threat_whitelist' : AddedEntry(w) => ResolvesExactly(w)
       /\ LogsWhitelistedDomain => NewAlerts = {}]_vars

\* The first half of C24 alone.
C24_WhitelistResolves ==
    [][\A w \in threat_whitelist' : AddedEntry(w) => ResolvesExactly(w)]_vars

\* A whitelist request has resolved an alert of its domain and left another
\* alert unresolved.
C24_ResolveWitness ==
    /\ \E w \in threat_whitelist, i \in DOMAIN threat_alerts :
          /\ w.indicator_type = "domain"
          /\ threat_alerts[i].domain = w.domain
          /\ threat_alerts[i].resolved
    /\ \E i \in DOMAIN threat_alerts : ~threat_alerts[i].resolved

-----------------------------------------------------------------------------
(* Concurrent whitelist requests: each add_threat_whitelist call runs its
   SELECT and its INSERT as separate statements of one transaction. *)

\* postgresql.py lines 1849-1866: the SELECT; an existing row's id is returned.
AdderSelect(a, indicator_type, domain, ip) ==
    /\ adders[a].pc = "idle"
    /\ adders' = [adders EXCEPT ![a] =
          IF WhitelistExisting(threat_whitelist, indicator_type, domain, ip)
          THEN [pc |-> "resolve", indicator_type |-> indicator_type, domain |-> domain,
                ip |-> ip, result |-> "existing"]
          ELSE [pc |-> "insert", indicator_type |-> indicator_type, domain |-> domain,
                ip |-> ip, result |-> NULL]]
    /\ UNCHANGED <<now, flowVars, dnsVars, storeThreatVars, callVars,
                   ingest, api, updaters, replace_log, txn, read_call, toggle_call, shutdown, classify_call, scheduler>>

\* postgresql.py lines 1868-1883: the INSERT and commit; a violated unique
\* index raises, the transaction is rolled back and the route answers 500.
AdderInsert(a) ==
    /\ adders[a].pc = "insert"
    /\ LET added == WhitelistInsert(threat_whitelist, adders[a].indicator_type,
                                    adders[a].domain, adders[a].ip)
       IN  /\ threat_whitelist' = added.wl
           /\ adders' = [adders EXCEPT ![a].result = added.result,
                                       ![a].pc = IF added.result = "error" THEN "done"
                                                 ELSE "resolve"]
    /\ UNCHANGED <<now, flowVars, dnsVars, threat_indicators, threat_feeds, threat_alerts,
                   callVars, ingest, api, updaters, replace_log, txn, read_call, toggle_call, shutdown, classify_call, scheduler>>

\* routes/threat.py lines 328-331: db.resolve_threat_alerts_by_indicator(...)
AdderResolve(a) ==
    /\ adders[a].pc = "resolve"
    /\ threat_alerts' = resolve_threat_alerts_by_indicator(threat_alerts, adders[a].domain,
                                                           adders[a].ip)
    /\ adders' = [adders EXCEPT ![a].pc = "done"]
    /\ UNCHANGED <<now, flowVars, dnsVars, threat_indicators, threat_feeds, threat_whitelist,
                   callVars, ingest, api, updaters, replace_log, txn, read_call, toggle_call, shutdown, classify_call, scheduler>>

\* The response has been sent; the worker takes the next request.
AdderReturn(a) ==
    /\ adders[a].pc = "done"
    /\ adders' = [adders EXCEPT ![a] = AdderIdle]
    /\ UNCHANGED <<now, flowVars, dnsVars, storeThreatVars, callVars,
                   ingest, api, updaters, replace_log, txn, read_call, toggle_call, shutdown, classify_call, scheduler>>

NextWhitelistRace ==
    \/ \E a \in Adders, d \in {"evil.com", "a.evil.com", "A.EVIL.COM"} :
          AdderSelect(a, "domain", d, NoIp)
    \/ \E a \in Adders, ip \in {Public1, Public2} : AdderSelect(a, "ip", NULL, ip)
    \/ \E a \in Adders : AdderInsert(a)
    \/ \E a \in Adders : AdderResolve(a)
    \/ \E a \in Adders : AdderReturn(a)

SpecWhitelistRace == Init /\ [][NextWhitelistRace]_vars

\* C25 (as claimed): whatever the order of the add_threat_whitelist calls,
\* sequential or concurrent, the whitelist holds at most one row per
\* normalised domain and per address, and no call fails: a call for an
\* indicator that is already on the whitelist returns the existing row.
C25_OneRowAndNoFailure ==
    /\ \A w1, w2 \in threat_whitelist :
          (\/ (w1.domain # NULL /\ w1.domain = w2.domain)
           \/ (w1.ip # NoIp /\ w1.ip = w2.ip)) => w1 = w2
    /\ \A a \in Adders : adders[a].result # "error"

\* The first half of C25 alone: at most one row per domain and per address.
C25_OneRow ==
    \A w1, w2 \in threat_whitelist :
        (\/ (w1.domain # NULL /\ w1.domain = w2.domain)
         \/ (w1.ip # NoIp /\ w1.ip = w2.ip)) => w1 = w2

-----------------------------------------------------------------------------
(* PUT /threat/feeds/{feed_name}/toggle *)

\* toggle_threat_feed: 404 for a feed without a metadata row; otherwise the
\* enabled flag is stored and a ThreatIntelligenceManager is constructed,
\* which registers the default feeds.
ToggleFeed(feed_name, enabled) ==
    /\ IF feed_name \notin DOMAIN threat_feeds
       THEN /\ threat_feeds' = threat_feeds
            /\ toggle_call' = [feed_name |-> feed_name, enabled |-> enabled,
                               result |-> "not_found", seq |-> 1 - toggle_call.seq]
       ELSE /\ threat_feeds' =
                  register_feed(
                      register_feed(
                          update_threat_feed_enabled(threat_feeds, feed_name, enabled),
                          "URLhaus"),
                      "PhishingArmy")
            /\ toggle_call' = [feed_name |-> feed_name, enabled |-> enabled,
                               result |-> "success", seq |-> 1 - toggle_call.seq]
    /\ UNCHANGED <<now, flowVars, dnsVars, threat_indicators, threat_whitelist, threat_alerts,
                   callVars, ingest, api, updaters, replace_log, txn, read_call, adders, shutdown, classify_call, scheduler>>

ToggleContent == FeedContent({"evil.com"}, {Public1})

ToggleDnsEvents(ts) ==
    { DnsEvent("response", "evil.com", "A", <<AnswerA(Public1)>>, ts) }

NextToggle ==
    \/ \E f \in FeedNames \cup {"unknown"}, enabled \in BOOLEAN : ToggleFeed(f, enabled)
    \/ \E f \in FeedNames, o \in UpdateOutcomes : UpdateFeed(f, TRUE, o, ToggleContent)
    \/ \E ev \in ToggleDnsEvents(now) : LogDns(ev)

SpecToggle == Init /\ [][NextToggle]_vars

C26_WitnessUnknown == toggle_call.result = "not_found"

-----------------------------------------------------------------------------
(* Start and shutdown of NetworkMonitor.  The clock does not advance in this
   specification, so the periodic flush inside process_packet is never due. *)

\* The callers of NetworkMonitor.stop: _signal_handler and the finally block
\* of start.
StopCallers == {"signal", "finally"}

\* NetworkMonitor.start up to the main loop; PacketCapture.start.
MonitorStart ==
    /\ shutdown.pc = "init"
    /\ shutdown' = [shutdown EXCEPT !.pc = "loop", !.running = TRUE,
                                    !.capture_running = TRUE, !.thread = "alive"]
    /\ UNCHANGED <<now, flowVars, dnsVars, storeThreatVars, callVars,
                   ingest, api, updaters, replace_log, txn, read_call, adders, toggle_call, classify_call, scheduler>>

\* The capture thread hands one packet to process_packet; sniff evaluates
\* stop_filter after the callback and ends the thread when running is False.
CapturePacket(p) ==
    /\ shutdown.thread = "alive"
    /\ BagCardinality(accepted) < MaxPackets
    /\ now - last_flush < cache_flush_interval
    /\ LET cache1 == IF IsAccepted(p) THEN CacheAfterPacket(flow_cache, p, now)
                     ELSE flow_cache
       IN  /\ flow_cache' = cache1
           /\ accepted' = IF IsAccepted(p) THEN accepted (+) SetToBag({Raw(p)}) ELSE accepted
           /\ uncleared' = IF IsAccepted(p) THEN uncleared (+) SetToBag({Raw(p)})
                           ELSE uncleared
           /\ shutdown' = [shutdown EXCEPT
                 !.thread = IF shutdown.capture_running THEN "alive" ELSE "ended",
                 !.mutated = @ \/ (shutdown.iter > 0 /\ cache1 # flow_cache)]
    /\ UNCHANGED <<now, last_flush, traffic_flows, flush_obs, store_failures, lookup_call,
                   dnsVars, storeThreatVars, callVars,
                   ingest, api, updaters, replace_log, txn, read_call, adders, toggle_call, classify_call, scheduler>>

\* NetworkMonitor.stop, lines 148-153: return at once when not running; else
\* clear running and stop the scheduler.  The signal handler may interrupt
\* the main thread anywhere; the finally block runs when the loop has ended.
StopCall(caller) ==
    /\ caller \notin shutdown.called
    /\ shutdown.pc # "init"
    /\ caller = "finally" => shutdown.pc \in {"loop", "closed"}
    /\ shutdown' = IF ~shutdown.running
                   THEN [shutdown EXCEPT !.called = @ \cup {caller}]
                   ELSE [shutdown EXCEPT !.called = @ \cup {caller}, !.running = FALSE,
                                         !.pc = "stop_capture"]
    /\ UNCHANGED <<now, flowVars, dnsVars, storeThreatVars, callVars,
                   ingest, api, updaters, replace_log, txn, read_call, adders, toggle_call, classify_call, scheduler>>

\* PacketCapture.stop, line 344: self.running = False
StopCapture ==
    /\ shutdown.pc = "stop_capture"
    /\ shutdown' = [shutdown EXCEPT !.capture_running = FALSE, !.pc = "join"]
    /\ UNCHANGED <<now, flowVars, dnsVars, storeThreatVars, callVars,
                   ingest, api, updaters, replace_log, txn, read_call, adders, toggle_call, classify_call, scheduler>>

\* PacketCapture.stop, lines 345-346: capture_thread.join(timeout=5) returns
\* when the thread has ended (timed_out = FALSE) or after five seconds with
\* the thread still in sniff (timed_out = TRUE).
JoinCapture(timed_out) ==
    /\ shutdown.pc = "join"
    /\ shutdown.thread = (IF timed_out THEN "alive" ELSE "ended")
    /\ shutdown' = [shutdown EXCEPT !.pc = "flush"]
    /\ UNCHANGED <<now, flowVars, dnsVars, storeThreatVars, callVars,
                   ingest, api, updaters, replace_log, txn, read_call, adders, toggle_call, classify_call, scheduler>>

\* TrafficMonitor.flush -> _flush_cache, lines 207-212: return when the cache
\* is empty, else start iterating flow_cache.items().
ShutdownFlushBegin ==
    /\ shutdown.pc = "flush"
    /\ shutdown.iter = 0
    /\ shutdown' = IF flow_cache.keys = <<>>
                   THEN [shutdown EXCEPT !.flushes = @ + 1, !.pc = "disconnect"]
                   ELSE [shutdown EXCEPT !.flushes = @ + 1, !.iter = 1,
                                         !.iter_len = Len(flow_cache.keys),
                                         !.at_flush = flow_cache.keys]
    /\ UNCHANGED <<now, flowVars, dnsVars, storeThreatVars, callVars,
                   ingest, api, updaters, replace_log, txn, read_call, adders, toggle_call, classify_call, scheduler>>

\* One round of the for loop of _flush_cache.  The dict iterator raises
\* RuntimeError when the dict has changed size since the iteration began; the
\* except clause logs it and the cache is not cleared.  Past the last entry the
\* cache is cleared and last_flush set.
ShutdownFlushNext ==
    /\ shutdown.pc = "flush"
    /\ shutdown.iter > 0
    /\ IF Len(flow_cache.keys) # shutdown.iter_len
       THEN /\ shutdown' = [shutdown EXCEPT !.iter = 0, !.pc = "disconnect"]
            /\ UNCHANGED <<flow_cache, last_flush, traffic_flows, uncleared>>
       ELSE IF shutdown.iter > shutdown.iter_len
       THEN /\ flow_cache' = EmptyCache
            /\ last_flush' = now
            /\ uncleared' = EmptyBag
            /\ shutdown' = [shutdown EXCEPT !.iter = 0, !.pc = "disconnect"]
            /\ UNCHANGED traffic_flows
       ELSE LET k == flow_cache.keys[shutdown.iter]
                e == FlushValues(flow_cache.data[k])
            IN  /\ traffic_flows' = UpsertRow(traffic_flows, k, e,
                                              UpsertDomain(NULL, e.is_abnormal, NULL), now)
                /\ shutdown' = [shutdown EXCEPT !.iter = @ + 1,
                                                !.upserted = @ (+) SetToBag({k})]
                /\ UNCHANGED <<flow_cache, last_flush, uncleared>>
    /\ UNCHANGED <<now, accepted, flush_obs, store_failures, lookup_call,
                   dnsVars, storeThreatVars, callVars,
                   ingest, api, updaters, replace_log, txn, read_call, adders, toggle_call, classify_call, scheduler>>

\* NetworkMonitor.stop, lines 167-170: db.disconnect(); stop returns.
Disconnect ==
    /\ shutdown.pc = "disconnect"
    /\ shutdown' = [shutdown EXCEPT !.pc = "closed"]
    /\ UNCHANGED <<now, flowVars, dnsVars, storeThreatVars, callVars,
                   ingest, api, updaters, replace_log, txn, read_call, adders, toggle_call, classify_call, scheduler>>

NextShutdown ==
    \/ MonitorStart
    \/ \E p \in Packets(now) : CapturePacket(p)
    \/ \E caller \in StopCallers : StopCall(caller)
    \/ StopCapture
    \/ \E timed_out \in BOOLEAN : JoinCapture(timed_out)
    \/ ShutdownFlushBegin
    \/ ShutdownFlushNext
    \/ Disconnect

SpecShutdown == Init /\ [][NextShutdown]_vars

\* How often the shutdown flush has upserted the key k.
ShutdownUpserts(k) == IF k \in DOMAIN shutdown.upserted THEN shutdown.upserted[k] ELSE 0

\* C27 (as claimed): the capture is stopped before the shutdown flush, no
\* process_packet changes the flow cache while the shutdown flush iterates
\* it, every entry in the cache at shutdown is upserted exactly once, and
\* stop() called by the signal handler and by the finally block flushes once.
C27_ShutdownFlush ==
    /\ shutdown.pc = "flush" => ~shutdown.capture_running
    /\ ~shutdown.mutated
    /\ shutdown.pc = "closed" =>
          \A i \in DOMAIN shutdown.at_flush : ShutdownUpserts(shutdown.at_flush[i]) = 1
    /\ shutdown.flushes <= 1

\* The parts of C27 about the order of the calls in stop(): the capture's
\* running flag is cleared before the flush starts, and two calls of stop()
\* flush once.
C27_StopOrderAndOnce ==
    /\ shutdown.pc = "flush" => ~shutdown.capture_running
    /\ shutdown.flushes <= 1
    /\ \A i \in DOMAIN shutdown.at_flush : ShutdownUpserts(shutdown.at_flush[i]) <= 1

\* Both callers have called stop() and the shutdown flush has written two entries.
C27_WitnessTwoCalls ==
    /\ shutdown.called = StopCallers
    /\ shutdown.pc = "closed"
    /\ Len(shutdown.at_flush) = 2
    /\ \A i \in DOMAIN shutdown.at_flush : ShutdownUpserts(shutdown.at_flush[i]) = 1

-----------------------------------------------------------------------------
(* Direction of LAN-internal packets: process_packet lines 77-107 *)

\* Ports around the thresholds of the tie-break.
PortSamples == {21, 22, 80, 443, 1023, 1024, 3306, 5000, 8080, 49151, 49152, 60000}

\* process_packet classifies a packet from Local1 to Local2.
ClassifyPacket(sport, dport) ==
    /\ classify_call' = [NoClassifyCall EXCEPT
                            !.called = TRUE, !.source_port = sport, !.destination_port = dport,
                            !.flow = Classify(Packet(Local1, sport, Local2, dport, 60, now))]
    /\ UNCHANGED <<now, flowVars, dnsVars, storeThreatVars, callVars,
                   ingest, api, updaters, replace_log, txn, read_call, adders, toggle_call,
                   shutdown, scheduler>>

\* process_packet classifies the packet the peer sends back on the same
\* connection: from Local2 to Local1 with the two ports exchanged.
ClassifyReply ==
    /\ classify_call.called
    /\ ~classify_call.replied
    /\ classify_call' = [classify_call EXCEPT
                            !.replied = TRUE,
                            !.reply = Classify(Packet(Local2, classify_call.destination_port,
                                                      Local1, classify_call.source_port,
                                                      60, now))]
    /\ UNCHANGED <<now, flowVars, dnsVars, storeThreatVars, callVars,
                   ingest, api, updaters, replace_log, txn, read_call, adders, toggle_call,
                   shutdown, scheduler>>

NextClassify ==
    \/ \E sport, dport \in PortSamples : ClassifyPacket(sport, dport)
    \/ ClassifyReply

SpecClassify == Init /\ [][NextClassify]_vars

\* The well-known ports of the tie-break's second rule.
WellKnownPorts == {80, 443, 22, 21, 25, 53, 110, 143, 993, 995, 3306, 5432, 8080, 8443}

\* The four-rule tie-break: which side of a LAN-internal packet is the
\* server.  Equal ports leave the last rule undecided.
TieBreakServer(sport, dport) ==
    LET se == sport >= EphemeralPortMin
        de == dport >= EphemeralPortMin
        sw == sport \in WellKnownPorts
        dw == dport \in WellKnownPorts
        sp == sport < 1024
        dp == dport < 1024
    IN  IF se # de THEN (IF se THEN {"destination"} ELSE {"source"})
        ELSE IF sw # dw THEN (IF sw THEN {"source"} ELSE {"destination"})
        ELSE IF sp # dp THEN (IF sp THEN {"source"} ELSE {"destination"})
        ELSE IF sport < dport THEN {"source"}
        ELSE IF dport < sport THEN {"destination"}
        ELSE {"source", "destination"}

\* The side that the classification made the server.
ServerSide(c) == IF c.flow.server_ip = Local2 THEN "destination" ELSE "source"

\* Client, server and server port of the classification belong to one
\* orientation of the packet.
Oriented(c) ==
    \/ /\ c.flow.client_ip = Local1 /\ c.flow.server_ip = Local2
       /\ c.flow.server_port = c.destination_port
    \/ /\ c.flow.client_ip = Local2 /\ c.flow.server_ip = Local1
       /\ c.flow.server_port = c.source_port

\* C28 (as claimed): for a packet with two local endpoints the client,
\* server and server port chosen by process_packet are those of the four-rule
\* tie-break, for every pair of ports.
C28_TieBreak ==
    classify_call.called =>
        /\ Oriented(classify_call)
        /\ ServerSide(classify_call)
              \in TieBreakServer(classify_call.source_port, classify_call.destination_port)

\* The first rule of C28 alone: exactly one ephemeral side is the client.
C28_EphemeralRule ==
    (/\ classify_call.called
     /\ (classify_call.source_port >= EphemeralPortMin)
            # (classify_call.destination_port >= EphemeralPortMin)) =>
        /\ Oriented(classify_call)
        /\ ServerSide(classify_call)
              \in TieBreakServer(classify_call.source_port, classify_call.destination_port)

-----------------------------------------------------------------------------
(* Store errors during a flush *)

\* The packets counted in the stored row of the key k.
StoredPackets(tbl, k) == IF k \in DOMAIN tbl THEN tbl[k].packet_count ELSE 0

\* The step is a flush in which an upsert raised.
FlushFailed == store_failures' = store_failures + 1

\* The step is a flush that wrote the whole cache and cleared it.
FlushSucceeded == flow_cache' = EmptyCache /\ uncleared # EmptyBag /\ uncleared' = EmptyBag

\* C29: when upsert_traffic_flow raises during a flush no entry leaves the
\* cache (a flush on its own leaves the cache as it was; inside
\* process_packet the packet just accepted stays counted as well), a packet
\* accepted after the failure is cached or flushed as any other, and the
\* flush in which the store succeeds writes every retained entry.
C29_FailedFlushKeepsEntries ==
    /\ [][FlushFailed =>
            /\ accepted' = accepted => flow_cache' = flow_cache
            /\ \A k \in CacheKeys(flow_cache) :
                  /\ k \in CacheKeys(flow_cache')
                  /\ flow_cache'.data[k].packet_count >= flow_cache.data[k].packet_count
            /\ BagCardinality(uncleared') = BagCardinality(uncleared)
                                               + BagCardinality(accepted') - BagCardinality(accepted)
            /\ BagCardinality(accepted') - BagCardinality(accepted) \in {0, 1}]_vars
    /\ [][FlushSucceeded =>
            \A k \in CacheKeys(flow_cache) :
                /\ k \in DOMAIN traffic_flows'
                /\ traffic_flows'[k].packet_count
                      >= StoredPackets(traffic_flows, k) + flow_cache.data[k].packet_count]_vars
    /\ [][(store_failures > 0 /\ accepted' # accepted) =>
            \/ uncleared' = EmptyBag
            \/ BagCardinality(uncleared') = BagCardinality(uncleared) + 1]_vars

\* A flush failed and a later flush wrote the retained entries and cleared the
\* cache.
C29_Witness ==
    /\ store_failures > 0
    /\ flow_cache = EmptyCache
    /\ flush_obs.called
    /\ Cardinality(flush_obs.done) >= 2
    /\ BagCardinality(accepted) = MaxPackets

\* A packet has been accepted into the cache after the flush that failed.
C29_WitnessAccepted ==
    /\ store_failures > 0
    /\ flush_obs.called
    /\ BagCardinality(uncleared) > BagCardinality(flush_obs.pending)

-----------------------------------------------------------------------------
(* Stickiness of the domain binding *)

\* C30 (as claimed): once a stored flow row is bound to a domain, every
\* later upsert for its key keeps that domain, also when the reverse lookup of
\* the later flush returns another domain.
C30_BindingSticky ==
    [][\A k \in DOMAIN traffic_flows :
          traffic_flows[k].domain # NULL =>
              traffic_flows'[k].domain = traffic_flows[k].domain]_vars

-----------------------------------------------------------------------------
(* The orphan flag of stored flows *)

\* C31 (as claimed): after any sequence of flushes every stored flow row has
\* is_orphaned set exactly when its stored domain is NULL; a row that keeps an
\* earlier binding is never marked orphaned by a later upsert whose lookup
\* found nothing.
C31_OrphanedIffUnbound ==
    \A k \in DOMAIN traffic_flows :
        traffic_flows[k].is_orphaned <=> (traffic_flows[k].domain = NULL)

\* One direction of C31 alone: a row without a domain is marked orphaned.
C31_UnboundIsOrphaned ==
    \A k \in DOMAIN traffic_flows :
        traffic_flows[k].domain = NULL => traffic_flows[k].is_orphaned

-----------------------------------------------------------------------------
(* The addresses of the DNS summary rows *)

SummaryDnsEvents(ts) ==
    { DnsEvent("response", "example.com", "A", <<AnswerA(Public1)>>, ts),
      DnsEvent("response", "example.com", "AAAA", <<AnswerA(Public2)>>, ts),
      DnsEvent("response", "example.com", "A", <<AnswerCname>>, ts),
      DnsEvent("query", "example.com", "A", <<>>, ts),
      DnsEvent("query", "example.com", "AAAA", <<>>, ts) }

NextDnsSummary ==
    \/ \E ev \in SummaryDnsEvents(now) : LogDnsUpTo(ev, MaxSummaryEvents)
    \/ Tick(TickShort)

SpecDnsSummary == Init /\ [][NextDnsSummary]_vars

\* C32 (as claimed): the resolved_ips of a summary row are those of the
\* latest A/AAAA response with an address for its (domain, query type): such
\* a response replaces them, and a query event, or any event for another
\* query type of the domain, leaves them unchanged.
C32_ResolvedIpsFromResponses ==
    [][Len(dns_events') > Len(dns_events) =>
        LET ev == dns_events'[Len(dns_events')]
            ips == IpsOfAnswers(ev.resolved_ips)
            replaces(k) == /\ ev.type = "response" /\ ips # <<>>
                           /\ ev.query_type \in {"A", "AAAA"}
                           /\ k = <<ev.domain, ev.query_type>>
        IN  /\ \A k \in DOMAIN dns_lookups :
                  /\ k \in DOMAIN dns_lookups'
                  /\ dns_lookups'[k].resolved_ips =
                        IF replaces(k) THEN ips ELSE dns_lookups[k].resolved_ips
            /\ \A k \in DOMAIN dns_lookups' : replaces(k) => dns_lookups'[k].resolved_ips = ips]_vars

\* The response half of C32 alone: a response with an address replaces the
\* addresses of its own row and no response changes another row.
C32_ResponsesReplace ==
    [][(Len(dns_events') > Len(dns_events) /\ dns_events'[Len(dns_events')].type = "response") =>
        LET ev == dns_events'[Len(dns_events')]
            ips == IpsOfAnswers(ev.resolved_ips)
            replaces(k) == /\ ips # <<>> /\ ev.query_type \in {"A", "AAAA"}
                           /\ k = <<ev.domain, ev.query_type>>
        IN  \A k \in DOMAIN dns_lookups :
                dns_lookups'[k].resolved_ips =
                    IF replaces(k) THEN ips ELSE dns_lookups[k].resolved_ips]_vars


-----------------------------------------------------------------------------
(* The rescan of stored DNS events: addresses and the dedup guard *)

\* Feed contents that list the domain, the address, or both.
RescanContents ==
    { FeedContent({"evil.com"}, {}), FeedContent({}, {Public1}),
      FeedContent({"evil.com"}, {Public1}) }

\* Responses of two domains that resolve to the same address.
RescanDnsEvents(ts) ==
    { DnsEvent("response", d, "A", <<AnswerA(Public1)>>, ts) : d \in {"evil.com", "example.com"} }

\* Events are stored, the feed is refreshed afterwards, a domain is
\* whitelisted, and the stored events are scanned again.
NextRescan ==
    \/ \E ev \in RescanDnsEvents(now) : LogDns(ev)
    \/ \E c \in RescanContents : UpdateFeed("URLhaus", TRUE, "ok", c)
    \/ AddWhitelist("domain", "evil.com", NoIp)
    \/ \E fetched \in BOOLEAN : ScanHistorical(fetched)

SpecRescan == Init /\ [][NextRescan]_vars

\* The values of `fetched` with which scan_historical_dns may run in the
\* current state (the guard of ScanHistorical).
ScanFetches == { f \in BOOLEAN : f \/ Len(threat_alerts) < MaxUncheckedAlerts }

\* The stored events the scan of the last scan_days days reads.
WindowEvents ==
    { dns_events[i] : i \in { j \in DOMAIN dns_events :
                                dns_events[j].timestamp >= now - scan_days * SecondsPerDay } }

EventIps(ev) ==
    { IpsOfAnswers(ev.resolved_ips)[i] : i \in DOMAIN IpsOfAnswers(ev.resolved_ips) }

\* existing_alert_keys as the scan builds it before the first event.
ScanGuard(fetched) ==
    ScanStart(threat_alerts, get_threat_alerts(threat_alerts, alert_fetch_limit, fetched))

\* The address is one the scan has to alert on: not whitelisted, listed by an
\* ip indicator, no key of the guard names it.
IpDue(ip, fetched) ==
    /\ ~is_threat_whitelisted(threat_whitelist, NULL, ip)
    /\ check_ip(threat_indicators, ip) # {}
    /\ \A key \in ScanGuard(fetched).ip_keys : key[1] # ip

\* The ip alerts for the address among the rows a scan appended.
CreatedIpAlerts(alerts, ip) ==
    { i \in (DOMAIN alerts) \ (DOMAIN threat_alerts) :
        alerts[i].indicator_type = "ip" /\ alerts[i].ip = ip }

\* C33 (as claimed): whatever the order of the events and whatever the domain
\* of the event that carries it, the scan creates exactly one ip alert for
\* every address in the window that is not whitelisted, is listed by an ip
\* indicator and has no key in the dedup guard.
C33_ScanChecksEveryIp ==
    \A fetched \in ScanFetches :
        \A alerts \in scan_historical_dns(threat_alerts, threat_indicators, threat_whitelist,
                                          dns_events, scan_days, now, fetched) :
            \A ev \in WindowEvents : \A ip \in EventIps(ev) :
                IpDue(ip, fetched) => Cardinality(CreatedIpAlerts(alerts, ip)) = 1

\* What the scan does guarantee: never more than one ip alert for an address,
\* and exactly one when some event that carries the address has a domain that
\* is not whitelisted.
C33_ScanChecksIpOfOpenDomain ==
    \A fetched \in ScanFetches :
        \A alerts \in scan_historical_dns(threat_alerts, threat_indicators, threat_whitelist,
                                          dns_events, scan_days, now, fetched) :
            \A ev \in WindowEvents : \A ip \in EventIps(ev) :
                /\ Cardinality(CreatedIpAlerts(alerts, ip)) <= 1
                /\ (IpDue(ip, fetched) /\ ~DomainWhitelisted(threat_whitelist, ev.domain))
                      => Cardinality(CreatedIpAlerts(alerts, ip)) = 1


\* A row of the table is a domain alert for the domain and the feed.
IsDomainAlert(a, domain, feed_name) ==
    /\ a.indicator_type = "domain"
    /\ a.domain # NULL
    /\ Lower(a.domain) = Lower(domain)
    /\ a.feed_name = feed_name

\* The scan has to see to a domain alert for the event: its domain is not
\* whitelisted and a domain indicator of exactly one feed lists it.
DomainDue(ev, feed_name) ==
    /\ ~DomainWhitelisted(threat_whitelist, ev.domain)
    /\ { r.feed_name : r \in check_domain(threat_indicators, ev.domain) } = {feed_name}

\* C34 (as claimed): the guard is keyed by the indicator type of the existing
\* alert; an ip alert that carries domain d and feed F does not stop the scan
\* from creating the domain alert for (d, F), so after the scan a domain
\* alert for (d, F) exists whenever d is listed by F and not whitelisted.
C34_GuardKeyedByType ==
    \A fetched \in ScanFetches :
        \A alerts \in scan_historical_dns(threat_alerts, threat_indicators, threat_whitelist,
                                          dns_events, scan_days, now, fetched) :
            \A ev \in WindowEvents : \A f \in FeedNames :
                DomainDue(ev, f) => \E i \in DOMAIN alerts : IsDomainAlert(alerts[i], ev.domain, f)

\* The ip half of C34: only an existing alert that carries the address keeps
\* the scan from creating the ip alert; domain alerts carry no address.
C34_IpKeysFromIpAlerts ==
    \A fetched \in ScanFetches :
        ScanGuard(fetched).ip_keys \subseteq
            { <<threat_alerts[i].ip, threat_alerts[i].feed_name>> :
                i \in { j \in DOMAIN threat_alerts : threat_alerts[j].indicator_type = "ip" } }


-----------------------------------------------------------------------------
(* The scheduler thread of main.py: SpecScheduler *)

MaxRounds == 2     \* rounds of _update_all_feeds one behaviour runs

\* self.threat_intel_manager.feeds.keys(): registration order.
FeedOrder == <<"URLhaus", "PhishingArmy">>

\* What one update_feed call of a round may meet; "exception" is a call that
\* raises before it changed anything (get_threat_feeds failing).
SchedulerOutcomes == {"ok", "download_error", "store_error", "exception"}

SchedulerContents == { ToggleContent }

\* _run: time.sleep(30) before the first round, time.sleep(24 hours) before
\* every later one; then _update_all_feeds starts over feeds.keys().
SchedulerWake ==
    /\ scheduler.pc \in {"startup", "sleeping"}
    /\ scheduler.rounds < MaxRounds
    /\ now' = now + (IF scheduler.pc = "startup" THEN startup_delay
                     ELSE update_interval_hours * SecondsPerHour)
    /\ scheduler' = [scheduler EXCEPT !.pc = "updating", !.todo = FeedOrder,
                                      !.attempted = <<>>, !.rounds = @ + 1]
    /\ UNCHANGED <<flowVars, dnsVars, storeThreatVars, callVars, ingest, api, updaters,
                   replace_log, txn, read_call, adders, toggle_call, shutdown, classify_call>>

\* The loop of _update_all_feeds without its try / except: an update_feed
\* call that raises ends the round and the thread.
SchedulerAttemptUncaught(outcome, content) ==
    /\ scheduler.pc = "updating"
    /\ scheduler.todo # <<>>
    /\ LET feed_name == Head(scheduler.todo)
           r == IF outcome = "exception"
                THEN [indicators |-> threat_indicators, feeds |-> threat_feeds,
                      result |-> "exception", downloaded |-> FALSE]
                ELSE update_feed(threat_indicators, threat_feeds, feed_name, FALSE, outcome,
                                 content, now, scheduler.enabled[feed_name])
       IN  /\ threat_indicators' = r.indicators
           /\ threat_feeds' = r.feeds
           /\ scheduler' = [scheduler EXCEPT
                  !.pc = IF outcome = "exception" THEN "dead" ELSE @,
                  !.todo = Tail(@),
                  !.attempted = Append(@, feed_name),
                  !.last = [feed_name |-> feed_name, result |-> r.result,
                            downloaded |-> r.downloaded, replaced |-> r.result = "success",
                            stored_enabled |-> threat_feeds[feed_name].enabled]]
    /\ UNCHANGED <<now, flowVars, dnsVars, threat_whitelist, threat_alerts, callVars,
                   ingest, api, updaters, replace_log, txn, read_call, adders, toggle_call,
                   shutdown, classify_call>>

\* One iteration of the loop of _update_all_feeds: update_feed(feed_name)
\* inside try / except Exception.
SchedulerAttempt(outcome, content) ==
    /\ scheduler.pc = "updating"
    /\ scheduler.todo # <<>>
    /\ LET feed_name == Head(scheduler.todo)
           r == IF outcome = "exception"
                THEN [indicators |-> threat_indicators, feeds |-> threat_feeds,
                      result |-> "exception", downloaded |-> FALSE]
                ELSE update_feed(threat_indicators, threat_feeds, feed_name, FALSE, outcome,
                                 content, now, scheduler.enabled[feed_name])
       IN  /\ threat_indicators' = r.indicators
           /\ threat_feeds' = r.feeds
           /\ scheduler' = [scheduler EXCEPT
                  !.todo = Tail(@),
                  !.attempted = Append(@, feed_name),
                  !.last = [feed_name |-> feed_name, result |-> r.result,
                            downloaded |-> r.downloaded, replaced |-> r.result = "success",
                            stored_enabled |-> threat_feeds[feed_name].enabled]]
    /\ UNCHANGED <<now, flowVars, dnsVars, threat_whitelist, threat_alerts, callVars,
                   ingest, api, updaters, replace_log, txn, read_call, adders, toggle_call,
                   shutdown, classify_call>>

\* The loop of _update_all_feeds is through; _run goes back to sleep.
SchedulerSleep ==
    /\ scheduler.pc = "updating"
    /\ scheduler.todo = <<>>
    /\ scheduler' = [scheduler EXCEPT !.pc = "sleeping"]
    /\ UNCHANGED <<now, flowVars, dnsVars, storeThreatVars, callVars, ingest, api, updaters,
                   replace_log, txn, read_call, adders, toggle_call, shutdown, classify_call>>

\* The monitor process is started again between two rounds:
\* NetworkMonitor.__init__ builds a new manager, and register_feed copies the
\* stored enabled flag of each feed into its feed object.
SchedulerRestart ==
    /\ scheduler.pc = "sleeping"
    /\ scheduler.rounds < MaxRounds
    /\ scheduler' = [SchedulerIdle EXCEPT
                        !.rounds = scheduler.rounds,
                        !.enabled = [f \in FeedNames |-> threat_feeds[f].enabled]]
    /\ UNCHANGED <<now, flowVars, dnsVars, storeThreatVars, callVars, ingest, api, updaters,
                   replace_log, txn, read_call, adders, toggle_call, shutdown, classify_call>>

\* POST /api/threat/feeds/{feed_name}/update: the route builds its own
\* manager, whose register_feed copies the stored flag, and calls update_feed.
ManualUpdate(feed_name, force, outcome, content) ==
    UpdateFeedAs(feed_name, force, outcome, content, threat_feeds[feed_name].enabled)

NextScheduler ==
    \/ SchedulerWake
    \/ \E o \in SchedulerOutcomes, c \in SchedulerContents : SchedulerAttempt(o, c)
    \/ SchedulerSleep
    \/ SchedulerRestart
    \/ ToggleFeed("URLhaus", FALSE)
    \/ ManualUpdate("URLhaus", FALSE, "ok", ToggleContent)

SpecScheduler == Init /\ [][NextScheduler]_vars

\* The scheduler thread keeps running: an update_feed call it has started
\* returns (urlopen has timeout=30), and a finished loop returns to _run.
SpecSchedulerFair ==
    /\ SpecScheduler
    /\ WF_vars(\E o \in SchedulerOutcomes, c \in SchedulerContents : SchedulerAttempt(o, c))
    /\ WF_vars(SchedulerSleep)


\* The step is one update_feed call of the scheduler's round.
IsSchedulerAttempt == Len(scheduler'.attempted) = Len(scheduler.attempted) + 1

\* C35 (as claimed): a scheduled update_feed of a feed whose stored flag is
\* disabled downloads nothing and leaves the indicator rows alone, and no
\* scheduled update_feed changes the stored enabled flag of any feed.
C35_SchedulerHonoursToggle ==
    [][IsSchedulerAttempt =>
        /\ ~threat_feeds[scheduler'.last.feed_name].enabled =>
              /\ ~scheduler'.last.downloaded
              /\ threat_indicators' = threat_indicators
        /\ \A f \in FeedNames : threat_feeds'[f].enabled = threat_feeds[f].enabled]_vars

\* What the scheduler does honour: the flag of its own feed object, which is
\* the stored flag as it was when the process started.
C35_SchedulerHonoursOwnFlag ==
    [][IsSchedulerAttempt =>
        LET f == scheduler'.last.feed_name
        IN  /\ ~scheduler.enabled[f] =>
                  /\ ~scheduler'.last.downloaded
                  /\ threat_indicators' = threat_indicators
                  /\ threat_feeds' = threat_feeds
            /\ \A g \in FeedNames :
                  threat_feeds'[g].enabled \in {threat_feeds[g].enabled, scheduler.enabled[g]}]_vars

\* C36: while a round runs, the feeds attempted so far followed by the feeds
\* still to come are the registered feeds in order, each once; whatever the
\* outcome of an attempt (success, throttled, download failure, error,
\* exception), the round moves on to the next feed, and a finished round has
\* attempted every feed and puts the thread back to sleep.
C36_RoundAttemptsEveryFeedOnce ==
    /\ [](/\ scheduler.pc \in {"startup", "updating", "sleeping"}
          /\ scheduler.pc = "updating" => scheduler.attempted \o scheduler.todo = FeedOrder
          /\ scheduler.pc = "sleeping" => scheduler.attempted = FeedOrder)
    /\ (scheduler.pc = "updating") ~> (scheduler.pc = "sleeping")

\* A round in which the first feed failed to download and the second feed
\* was attempted all the same.
C36_Witness ==
    /\ scheduler.pc = "sleeping"
    /\ scheduler.attempted = FeedOrder
    /\ scheduler.last.feed_name = "PhishingArmy"
    /\ scheduler.last.result = "success"
    /\ threat_feeds["URLhaus"].last_update = NoTime

\* A round in which the last feed's update raised and the thread went back to
\* sleep for the next round.
C36_WitnessException ==
    /\ scheduler.pc = "sleeping"
    /\ scheduler.last.result = "exception"
    /\ scheduler.rounds < MaxRounds

\* A round in which a feed was throttled.
C36_WitnessThrottled ==
    /\ scheduler.pc = "updating"
    /\ scheduler.last.result = "throttled"
    /\ scheduler.todo # <<>>


-----------------------------------------------------------------------------
(* The two directions of a LAN-internal connection *)

\* The two classifications name the same flow key.
SameFlowKey(f, g) ==
    /\ f.client_ip = g.client_ip
    /\ f.server_ip = g.server_ip
    /\ f.server_port = g.server_port

\* C37 (as claimed): a packet between two local endpoints and the packet of
\* the opposite direction get the same flow key and opposite directions,
\* for every pair of ports.
C37_BothDirectionsOneFlow ==
    classify_call.replied =>
        /\ SameFlowKey(classify_call.flow, classify_call.reply)
        /\ classify_call.flow.is_outbound_packet # classify_call.reply.is_outbound_packet

\* The same for connections whose two ports differ.
C37_DistinctPortsOneFlow ==
    (classify_call.replied /\ classify_call.source_port # classify_call.destination_port) =>
        /\ SameFlowKey(classify_call.flow, classify_call.reply)
        /\ classify_call.flow.is_outbound_packet # classify_call.reply.is_outbound_packet


-----------------------------------------------------------------------------
(* Periodic flush of the flow cache: SpecFlushFair *)

\* Time passes.  TrafficMonitor starts no timer and no thread of its own:
\* _flush_cache runs inside process_packet and inside flush(), so the arrival
\* of a packet and the call of flush() stay steps of the environment, with no
\* fairness.
SpecFlushFair == Spec /\ WF_vars(Tick(TickShort)) /\ WF_vars(TickWindow)

\* C38 (as claimed): once the flush interval has elapsed over a cache that
\* holds accepted packets, the cache is flushed, whether or not another
\* packet arrives or the monitor is stopped.
C38_CachedEventuallyFlushed ==
    (flow_cache.keys # <<>> /\ now - last_flush >= cache_flush_interval)
        ~> (flow_cache.keys = <<>>)

\* What the code does guarantee: a packet that process_packet accepts once
\* the interval has elapsed triggers the flush in the same call, and with
\* the store available that flush leaves the cache empty.
C38_FlushOnNextPacket ==
    [][(BagCardinality(accepted') > BagCardinality(accepted)
            /\ now - last_flush >= cache_flush_interval
            /\ store_failures' = store_failures)
        => flow_cache'.keys = <<>>]_vars


-----------------------------------------------------------------------------
(* indicator_count of the feed metadata against the indicator rows *)

\* The number of indicator rows stored for the feed.
StoredIndicators(feed_name) == BagCardinality(RowsOfFeed(threat_indicators, feed_name))

\* C39 (as claimed): after any sequence of update_feed calls, the
\* indicator_count of each feed's metadata is the number of indicator rows
\* stored for that feed.
C39_CountEqualsRows ==
    \A f \in FeedNames : threat_feeds[f].indicator_count = StoredIndicators(f)

\* The same after the calls that do not end in the except branch: a
\* successful, throttled or download-failed call leaves the count of its feed
\* equal to the rows when it was equal before the call.
C39_CountEqualsRowsUnlessError ==
    [][(/\ update_call' # update_call
        /\ update_call'.result # "error"
        /\ \A f \in FeedNames : threat_feeds[f].indicator_count = StoredIndicators(f))
        => \A f \in FeedNames :
              threat_feeds'[f].indicator_count =
                  BagCardinality(RowsOfFeed(threat_indicators', f))]_vars

====
